---- MODULE Spec2Model ----
(***************************************************************************)
(* A model of the chunkymonkey player session:                             *)
(*   - the chunk subscription tracking of package player                   *)
(*     (chunkSubscriptions), specification SpecSubs;                       *)
(*   - the three session tasks (rx, tx, main), the keep-alive state        *)
(*     machine and the session shutdown, together with the game loop and   *)
(*     a chunk that transmit to the player, specifications Spec and        *)
(*     FairSpec.                                                           *)
(***************************************************************************)
EXTENDS Integers, Sequences, FiniteSets, TLC

VARIABLES
    \* ---- chunk subscriptions (player.chunkSubs and the player's position)
    position,       \* player.position, X and Z in whole blocks
    spawnComplete,  \* player.spawnComplete
    subsInit,       \* chunkSubscriptions.Init has run
    curShardLoc,    \* sub.curShardLoc
    curChunkLoc,    \* sub.curChunkLoc
    curShard,       \* sub.curShard, a shard connection or NoConn
    shards,         \* sub.shards: shard location -> [shard, count]
    nextConn,       \* number of shard connections opened so far
    openConns,      \* shard connections opened and not yet disconnected
    subscribed,     \* chunks with ReqSubscribeChunk sent and no later ReqUnsubscribeChunk
    playerDataAt,   \* chunks with ReqAddPlayerData sent and no later ReqRemovePlayerData
    \* ---- session tasks
    mainPc,         \* position of Player.mainLoop
    rxPc,           \* position of playerRx.loop
    rxPkt,          \* the packet playerRx.loop is offering on recvPkt
    txPc,           \* position of Player.transmitLoop
    txQueue,        \* player.txQueue
    txErrChan,      \* player.txErrChan
    recvErr,        \* player.rx.recvErr
    ctrl,           \* player.rx.ctrl, number of queued stop signals
    stopPlayer,     \* player.stopPlayer, number of queued stop signals
    connOpen,       \* player.conn not yet closed
    ping,           \* player.ping: running, id, timer
    pktPing,        \* the local `ping` of pingReceived while it broadcasts
    playerPingNoCheck, \* the flag player_ping_no_check
    \* ---- game and chunk
    gamePc,         \* position of Game.Serve
    workQueue,      \* game.workQueue
    registered,     \* the player is in game.players
    playerWrites,   \* number of WritePlayerData calls for the player
    chunkPc,        \* position of a chunk that has the player as subscriber
    \* ---- history
    shutdownLog,    \* the shutdown steps of mainLoop performed so far
    timedOut,       \* pingTimeout has found the ping still running
    lastPkt,        \* the packet that the latest step of the main task handled, if any
    \* ---- the world: chunks, shards and non-player entities
    chunks,         \* chunk location -> the Chunk at that location
    shardQueue,     \* shard location -> the requests queued for that shard
    shardTicks,     \* shard location -> number of ticks the shard has run
    entityMgr,      \* the entities registered with the entity manager
    entPos,         \* entity id -> the entity's Position()
    \* ---- history of the world
    tx,             \* player id -> the packets the latest chunk operation transmitted
    unsubCalls,     \* observer -> number of Unsubscribed calls it received
    lastOp,         \* the latest chunk operation and its arguments
    lastBatch,      \* the chunks of the ReqSubscribeChunk calls of the latest Init or Move
    \* ---- squareDifference on its own
    sdArgs,         \* the arguments centerA, centerB and radius
    sdOut,          \* the slice returned, once the function has run
    \* ---- items and the players' data in the chunks
    itemData,       \* entity id -> kind, position and PickupImmunity of the entity
    playerPos,      \* player id -> playerData.position
    offers,         \* player id -> entity id -> OfferItem calls since the shard's latest tick
    pendingTake,    \* the offers <<player, entity>> that the player has yet to answer
    \* ---- the player's packets
    height,         \* player.height
    lastHandled,    \* the latest packet handled and the requests its handler sent
    \* ---- a connection before the login, and the packet codec
    login,          \* the pktHandler of the connection: its position, errors and packets
    codecIn,        \* the value handed to a function of the codec
    codecOut,       \* what the function returned, once it has run
    \* ---- the game's registries of the connected players
    game,           \* Game.players and Game.playerNames
    workers,        \* the handshake workers: position, username and entity id
    \* ---- the conversions of a position
    coordIn,        \* the AbsXyz handed to the conversions
    coordOut,       \* what the conversions returned, once they have run
    \* ---- the recipes
    decoded,        \* what the JSON decoder gives LoadRecipes: the templates
    loaded          \* what LoadRecipes returned, once it has run

subsVars == <<position, spawnComplete, subsInit, curShardLoc, curChunkLoc,
              curShard, shards, nextConn, openConns, subscribed, playerDataAt>>

sessVars == <<mainPc, rxPc, rxPkt, txPc, txQueue, txErrChan, recvErr, ctrl,
              stopPlayer, connOpen, ping, pktPing, playerPingNoCheck,
              gamePc, workQueue, registered, playerWrites, chunkPc,
              shutdownLog, timedOut, lastPkt>>

worldVars == <<chunks, shardQueue, shardTicks, entityMgr, entPos, tx, unsubCalls,
               lastOp, lastBatch, sdArgs, sdOut>>

itemVars == <<itemData, playerPos, offers, pendingTake>>

moveVars == <<height, lastHandled>>

protoVars == <<login, codecIn, codecOut, game, workers, coordIn, coordOut,
              decoded, loaded>>

moreVars == <<itemVars, moveVars, protoVars>>

vars == <<subsVars, sessVars, worldVars, moreVars>>

----------------------------------------------------------------------------
(* Bounds of the model.                                                    *)

\* The radius of the subscription square.
ChunkRadius == 1
\* Edge of a shard, in chunks.
ShardSize == 2
\* The player's X and Z stay within -MaxCoord .. MaxCoord blocks.
MaxCoord == 20
\* Positions are multiples of PosStep blocks.
PosStep == 4
\* Moves stop once this many shard connections were opened.
MaxConns == 5
\* Capacity of player.txQueue in the model.
TxQueueCap == 1

\* Edge of a chunk, in blocks.
ChunkSizeH == 16
\* The height of the eyes of a standing player, in hundredths of a block, and
\* the heights that a position packet can give.
StanceNormal == 162
Stances == {StanceNormal, StanceNormal - 8}
\* The distance handleMove accepts between two positions.
MaxMoveDistance == 10

----------------------------------------------------------------------------
(* Coordinates.                                                            *)

\* Go's conversion of a float to an integer truncates towards zero.
TruncDiv(n, d) == IF n >= 0 THEN n \div d ELSE -((-n) \div d)

XZ(x, z) == [X |-> x, Z |-> z]

\* AbsXyz.ToChunkXz
ToChunkXz(abs) == XZ(TruncDiv(abs.X, ChunkSizeH), TruncDiv(abs.Z, ChunkSizeH))

\* ChunkXz.ToShardXz: shard = chunk >> shardShift
ChunkToShardXz(chunkLoc) == XZ(chunkLoc.X \div ShardSize, chunkLoc.Z \div ShardSize)

\* AbsXyz.ToShardXz
AbsToShardXz(abs) == ChunkToShardXz(ToChunkXz(abs))

\* AbsXyz.IsWithinDistanceOf, for two positions of the same height
IsWithinDistanceOf(p, q, dist) ==
    (p.X - q.X) * (p.X - q.X) + (p.Z - q.Z) * (p.Z - q.Z) <= dist * dist

Coords == {c \in -MaxCoord .. MaxCoord : c % PosStep = 0}
Positions == {XZ(x, z) : x \in Coords, z \in Coords}

----------------------------------------------------------------------------
(* squareDifference and orderedChunkSquare.                                *)

InSquare(loc, center, radius) ==
    /\ loc.X >= center.X - radius /\ loc.X <= center.X + radius
    /\ loc.Z >= center.Z - radius /\ loc.Z <= center.Z + radius

\* The chunks of the square around center, x outermost and z innermost, as
\* the two nested loops of squareDifference visit them.
SquareLoop(center, radius) ==
    LET n == radius * 2 + 1
    IN  [i \in 1 .. n * n |->
            XZ(center.X - radius + ((i - 1) \div n),
               center.Z - radius + ((i - 1) % n))]

squareDifference_lt(centerA, centerB, radius) ==
    LET inB(loc) == /\ loc.X >= centerB.X - radius /\ loc.X < centerB.X + radius
                    /\ loc.Z >= centerB.Z - radius /\ loc.Z <= centerB.Z + radius
        keep(loc) == ~inB(loc)
    IN  SelectSeq(SquareLoop(centerA, radius), keep)

squareDifference(centerA, centerB, radius) ==
    LET keep(loc) == ~InSquare(loc, centerB, radius)
    IN  SelectSeq(SquareLoop(centerA, radius), keep)

\* The ring at distance curRadius: northern and southern rows, then the
\* eastern and western columns without the corners.
ChunkRing(center, curRadius) ==
    LET xMin == -curRadius + center.X
        xMax == curRadius + center.X
        zMin == -curRadius + center.Z
        zMax == curRadius + center.Z
        rows == [i \in 1 .. 2 * (xMax - xMin + 1) |->
                    XZ(xMin + ((i - 1) \div 2), IF i % 2 = 1 THEN zMin ELSE zMax)]
        cols == [i \in 1 .. 2 * (zMax - zMin - 1) |->
                    XZ(IF i % 2 = 1 THEN xMin ELSE xMax, zMin + 1 + ((i - 1) \div 2))]
    IN  rows \o cols

RECURSIVE ChunkRings(_, _, _)
ChunkRings(center, curRadius, radius) ==
    IF curRadius > radius THEN <<>>
    ELSE ChunkRing(center, curRadius) \o ChunkRings(center, curRadius + 1, radius)

orderedChunkSquare_centerLast(center, radius) ==
    ChunkRings(center, 1, radius) \o <<center>>

orderedChunkSquare(center, radius) == <<center>> \o ChunkRings(center, 1, radius)

----------------------------------------------------------------------------
(* Shard connections of the session.                                       *)

NoConn == [loc |-> XZ(0, 0), id |-> 0]

\* The part of the session that subscribeToChunks and unsubscribeFromChunks
\* work on.
SubState == [shards |-> shards, nextConn |-> nextConn, openConns |-> openConns,
             subscribed |-> subscribed, reqs |-> << >>]

\* A request that the session sends to a shard for a chunk.
Request(op, chunkLoc) == [op |-> op, chunkLoc |-> chunkLoc]

RECURSIVE subscribeToChunks(_, _)
subscribeToChunks(st, chunkLocs) ==
    IF chunkLocs = <<>> THEN st
    ELSE
        LET chunkLoc == Head(chunkLocs)
            shardKey == ChunkToShardXz(chunkLoc)
            ok       == shardKey \in DOMAIN st.shards
            \* shardConnecter.ShardConnect
            conn     == [loc |-> shardKey, id |-> st.nextConn + 1]
            ref      == IF ok THEN st.shards[shardKey] ELSE [shard |-> conn, count |-> 0]
            st1 == [shards     |-> [k \in DOMAIN st.shards \cup {shardKey} |->
                                        IF k = shardKey
                                        THEN [ref EXCEPT !.count = ref.count + 1]
                                        ELSE st.shards[k]],
                    nextConn   |-> IF ok THEN st.nextConn ELSE st.nextConn + 1,
                    openConns  |-> IF ok THEN st.openConns ELSE st.openConns \cup {conn},
                    \* ref.shard.ReqSubscribeChunk(chunkLoc)
                    subscribed |-> st.subscribed \cup {chunkLoc},
                    reqs       |-> Append(st.reqs, Request("ReqSubscribeChunk", chunkLoc))]
        IN  subscribeToChunks(st1, Tail(chunkLocs))

RECURSIVE unsubscribeFromChunks(_, _)
unsubscribeFromChunks_late(st, chunkLocs) ==
    IF chunkLocs = <<>> THEN st
    ELSE
        LET chunkLoc == Head(chunkLocs)
            shardKey == ChunkToShardXz(chunkLoc)
            ok       == shardKey \in DOMAIN st.shards
            ref      == st.shards[shardKey]
            drop     == ref.count - 1 < 0
            st1 == IF ~ok THEN st
                   ELSE [shards     |-> [k \in (IF drop THEN DOMAIN st.shards \ {shardKey}
                                                ELSE DOMAIN st.shards) |->
                                            IF k = shardKey
                                            THEN [ref EXCEPT !.count = ref.count - 1]
                                            ELSE st.shards[k]],
                         nextConn   |-> st.nextConn,
                         openConns  |-> IF drop THEN st.openConns \ {ref.shard}
                                        ELSE st.openConns,
                         subscribed |-> st.subscribed \ {chunkLoc},
                         reqs       |-> Append(st.reqs, Request("ReqUnsubscribeChunk", chunkLoc))]
        IN  unsubscribeFromChunks(st1, Tail(chunkLocs))

unsubscribeFromChunks(st, chunkLocs) ==
    IF chunkLocs = <<>> THEN st
    ELSE
        LET chunkLoc == Head(chunkLocs)
            shardKey == ChunkToShardXz(chunkLoc)
            ok       == shardKey \in DOMAIN st.shards
            ref      == st.shards[shardKey]
            drop     == ref.count - 1 <= 0
            st1 == IF ~ok THEN st
                   ELSE [shards     |-> [k \in (IF drop THEN DOMAIN st.shards \ {shardKey}
                                                ELSE DOMAIN st.shards) |->
                                            IF k = shardKey
                                            THEN [ref EXCEPT !.count = ref.count - 1]
                                            ELSE st.shards[k]],
                         nextConn   |-> st.nextConn,
                         \* ref.shard.Disconnect()
                         openConns  |-> IF drop THEN st.openConns \ {ref.shard}
                                        ELSE st.openConns,
                         \* ref.shard.ReqUnsubscribeChunk(chunkLoc)
                         subscribed |-> st.subscribed \ {chunkLoc},
                         reqs       |-> Append(st.reqs, Request("ReqUnsubscribeChunk", chunkLoc))]
        IN  unsubscribeFromChunks(st1, Tail(chunkLocs))

----------------------------------------------------------------------------
(* Operations of chunkSubscriptions (specification SpecSubs).              *)

ShardOf(st, shardLoc) ==
    IF shardLoc \in DOMAIN st.shards THEN st.shards[shardLoc].shard ELSE NoConn

\* chunkSubscriptions.Init
SubsInit ==
    /\ ~subsInit
    /\ LET chunkLoc == ToChunkXz(position)
           shardLoc == AbsToShardXz(position)
           empty == [shards |-> << >>, nextConn |-> nextConn,
                     openConns |-> openConns, subscribed |-> subscribed,
                     reqs |-> << >>]
           st == subscribeToChunks(empty, orderedChunkSquare(chunkLoc, ChunkRadius))
       IN  /\ curShardLoc' = shardLoc
           /\ curChunkLoc' = chunkLoc
           /\ shards' = st.shards
           /\ nextConn' = st.nextConn
           /\ openConns' = st.openConns
           /\ subscribed' = st.subscribed
           /\ curShard' = ShardOf(st, shardLoc)
           \* sub.curShard.ReqAddPlayerData(sub.curChunkLoc, ...)
           /\ playerDataAt' = playerDataAt \cup {chunkLoc}
    /\ subsInit' = TRUE
    /\ UNCHANGED <<position, spawnComplete>>
    /\ UNCHANGED moveVars

\* Player.notifyChunkLoad, run by the main task for the first chunk that a
\* shard delivers: the start position, inventory and health are transmitted.
NotifyChunkLoad ==
    /\ subsInit
    /\ ~spawnComplete
    /\ spawnComplete' = TRUE
    /\ Len(txQueue) < TxQueueCap
    /\ txQueue' = Append(txQueue, "pkt")
    /\ UNCHANGED <<position, subsInit, curShardLoc, curChunkLoc, curShard, shards,
                   nextConn, openConns, subscribed, playerDataAt>>
    /\ UNCHANGED <<mainPc, rxPc, rxPkt, txPc, txErrChan, recvErr, ctrl, stopPlayer,
                   connOpen, ping, pktPing, playerPingNoCheck, gamePc, workQueue,
                   registered, playerWrites, chunkPc, shutdownLog, timedOut,
                   lastPkt>>
    /\ UNCHANGED <<worldVars, moreVars>>

\* chunkSubscriptions.moveToChunk: the session after the move, and the
\* chunks that hold the player's data.
\* moveToChunk without the removal of the playerData from the old chunk
moveToChunk_noRemove(newChunkLoc) ==
    LET addChunkLocs == squareDifference(newChunkLoc, curChunkLoc, ChunkRadius)
        st1 == subscribeToChunks(SubState, addChunkLocs)
        newOk == ChunkToShardXz(newChunkLoc) \in DOMAIN st1.shards
        added == IF newOk THEN playerDataAt \cup {newChunkLoc} ELSE playerDataAt
        st1a == IF newOk
                THEN [st1 EXCEPT !.reqs = Append(@, Request("ReqAddPlayerData", newChunkLoc))]
                ELSE st1
        delChunkLocs == squareDifference(curChunkLoc, newChunkLoc, ChunkRadius)
        st2 == unsubscribeFromChunks(st1a, delChunkLocs)
    IN  [st |-> st2, playerDataAt |-> added]

moveToChunk(newChunkLoc) ==
    LET addChunkLocs == squareDifference(newChunkLoc, curChunkLoc, ChunkRadius)
        st1 == subscribeToChunks(SubState, addChunkLocs)
        newOk == ChunkToShardXz(newChunkLoc) \in DOMAIN st1.shards
        curOk == ChunkToShardXz(curChunkLoc) \in DOMAIN st1.shards
        added == IF newOk THEN playerDataAt \cup {newChunkLoc} ELSE playerDataAt
        removed == IF curOk THEN added \ {curChunkLoc} ELSE added
        st1a == IF newOk
                THEN [st1 EXCEPT !.reqs = Append(@, Request("ReqAddPlayerData", newChunkLoc))]
                ELSE st1
        st1b == IF curOk
                THEN [st1a EXCEPT !.reqs = Append(@, Request("ReqRemovePlayerData", curChunkLoc))]
                ELSE st1a
        delChunkLocs == squareDifference(curChunkLoc, newChunkLoc, ChunkRadius)
        st2 == unsubscribeFromChunks(st1b, delChunkLocs)
    IN  [st |-> st2, playerDataAt |-> removed]

\* chunkSubscriptions.moveToShard: the new hosting shard client
moveToShard(st, newShardLoc) == ShardOf(st, newShardLoc)

\* chunkSubscriptions.Move
Move(newLoc) ==
    LET newChunkLoc == ToChunkXz(newLoc)
    IN  IF newChunkLoc.X # curChunkLoc.X \/ newChunkLoc.Z # curChunkLoc.Z
        THEN LET r == moveToChunk(newChunkLoc)
                 newShardLoc == AbsToShardXz(newLoc)
             IN  /\ shards' = r.st.shards
                 /\ nextConn' = r.st.nextConn
                 /\ openConns' = r.st.openConns
                 /\ subscribed' = r.st.subscribed
                 /\ playerDataAt' = r.playerDataAt
                 /\ curChunkLoc' = newChunkLoc
                 /\ curShard' = IF newShardLoc.X # curShardLoc.X \/ newShardLoc.Z # curShardLoc.Z
                                THEN moveToShard(r.st, newShardLoc)
                                ELSE curShard
                 /\ UNCHANGED curShardLoc
        ELSE \* sub.curShard.ReqSetPlayerPositionLook(...)
             UNCHANGED <<curShardLoc, curChunkLoc, curShard, shards, nextConn,
                         openConns, subscribed, playerDataAt>>

\* Whether chunkSubscriptions.Move sends the player's position to a shard:
\* ReqSetPlayerPositionLook within the chunk, ReqAddPlayerData with
\* player.position when the chunk changes and its shard is connected.
MoveSendsPosition(newLoc) ==
    LET newChunkLoc == ToChunkXz(newLoc)
    IN  IF newChunkLoc.X # curChunkLoc.X \/ newChunkLoc.Z # curChunkLoc.Z
        THEN ChunkToShardXz(newChunkLoc) \in DOMAIN moveToChunk(newChunkLoc).st.shards
        ELSE TRUE

\* The latest packet that a handler of the player has handled: for a position
\* packet whether it was further than MaxMoveDistance from player.position
\* and whether the position went to a shard, for a chat message the text
\* transmitted to the player itself and the ReqMulticastPlayers request.
Handled(pkt) ==
    [pkt |-> pkt, far |-> FALSE, sentPos |-> FALSE, toSelf |-> << >>,
     conn |-> NoConn, chunkLoc |-> XZ(0, 0), exclude |-> 0, data |-> << >>]

handleMove_noDistance(newPos, stance, record) ==
    /\ subsInit
    /\ nextConn <= MaxConns
    /\ IF ~spawnComplete
       THEN /\ UNCHANGED <<position, curShardLoc, curChunkLoc, curShard, shards,
                           nextConn, openConns, subscribed, playerDataAt, height>>
            /\ lastHandled' = IF ~record THEN lastHandled
                              ELSE [Handled("move") EXCEPT
                                       !.far = ~IsWithinDistanceOf(position, newPos,
                                                                   MaxMoveDistance)]
       ELSE /\ position' = newPos
            /\ height' = stance
            /\ Move(newPos)
            /\ lastHandled' = IF ~record THEN lastHandled
                              ELSE [Handled("move") EXCEPT
                                       !.far = ~IsWithinDistanceOf(position, newPos,
                                                                   MaxMoveDistance),
                                       !.sentPos = MoveSendsPosition(newPos)]
    /\ UNCHANGED <<spawnComplete, subsInit>>

\* Player.handleMove, for a packet with the position newPos and a stance
\* that is stance above it; record says whether lastHandled follows the
\* handler.
handleMove(newPos, stance, record) ==
    /\ subsInit
    /\ nextConn <= MaxConns
    /\ IF ~spawnComplete \/ ~IsWithinDistanceOf(position, newPos, MaxMoveDistance)
       THEN /\ UNCHANGED <<position, curShardLoc, curChunkLoc, curShard, shards,
                           nextConn, openConns, subscribed, playerDataAt, height>>
            /\ lastHandled' = IF ~record THEN lastHandled
                              ELSE [Handled("move") EXCEPT
                                       !.far = ~IsWithinDistanceOf(position, newPos,
                                                                   MaxMoveDistance)]
       ELSE /\ position' = newPos
            /\ height' = stance
            /\ Move(newPos)
            /\ lastHandled' = IF ~record THEN lastHandled
                              ELSE [Handled("move") EXCEPT
                                       !.sentPos = MoveSendsPosition(newPos)]
    /\ UNCHANGED <<spawnComplete, subsInit>>

\* Player.handlePacketPlayerPosition and handlePacketPlayerPositionLook, for
\* a standing player
HandleMove(newPos) == handleMove(newPos, StanceNormal, FALSE)

\* The player's name and the chat messages of the client, as sequences of
\* characters; gamerules.CommandFramework.Prefix() is "/".
PlayerName == <<"a">>
CommandPrefix == <<"/">>
ChatMessages == {<<"h", "i">>, <<"/", "h">>, << >>}
HasPrefix(str, prefix) ==
    Len(str) >= Len(prefix) /\ SubSeq(str, 1, Len(prefix)) = prefix
\* fmt.Sprintf("<%s> %s", name, message)
ChatText(name, message) == <<"<">> \o name \o <<">", " ">> \o message

\* Player.sendChatMessage
sendChatMessage(message, sendToSelf) ==
    [Handled("chat") EXCEPT
        !.toSelf = IF sendToSelf THEN <<message>> ELSE << >>,
        !.conn = curShard,
        !.chunkLoc = curChunkLoc,
        !.exclude = 1,
        !.data = message]

\* Player.handlePacketChatMessage
HandlePacketChatMessage(message) ==
    /\ subsInit
    /\ lastHandled' = IF HasPrefix(message, CommandPrefix) THEN Handled("command")
                      ELSE sendChatMessage(ChatText(PlayerName, message), TRUE)
    /\ UNCHANGED <<subsVars, height>>
    /\ UNCHANGED <<sessVars, worldVars, itemVars, protoVars>>

\* chunkSubscriptions.Close
Close ==
    /\ playerDataAt' = IF ChunkToShardXz(curChunkLoc) \in DOMAIN shards
                       THEN playerDataAt \ {curChunkLoc} ELSE playerDataAt
    /\ openConns' = openConns \ {shards[k].shard : k \in DOMAIN shards}
    /\ shards' = << >>
    /\ UNCHANGED <<position, spawnComplete, subsInit, curShardLoc, curChunkLoc,
                   curShard, nextConn, subscribed>>

----------------------------------------------------------------------------
(* The session: bounds, constants and values.                              *)

\* Capacity of game.workQueue in the model.
WorkQueueCap == 1
\* The server's keep-alive ids are 1 .. MaxPingId, the client's
\* 0 .. MaxPingId + 1.
MaxPingId == 1
\* The round trip times of a keep-alive are multiples of TimeStep seconds.
TimeStep == 20

\* Capacity of player.txErrChan.
TxErrChanCap == 1
\* Capacity of player.rx.recvErr.
RecvErrCap == 1
\* Capacity of player.stopPlayer.
StopPlayerCap == 1
\* Capacity of player.rx.ctrl.
CtrlCap == 1
\* Seconds.
PingTimeout == 60
PingInterval == 20

\* now.Sub(player.ping.timestamp) in seconds: the wall clock was set back,
\* an immediate reply, a late reply, and a reply that arrives when the
\* timeout has passed but the timer was not yet served.
Latencies == {-TimeStep, 0, 2 * TimeStep, PingTimeout}

PingIds == 1 .. MaxPingId

Pkt(t, i) == [type |-> t, id |-> i]
NoPkt == Pkt("none", 0)

\* What the client can send after login.  "Login" stands for the packets
\* whose handler only stops the player (Login, Handshake, ServerListPing,
\* Disconnect), "WindowClick" for those answered with a packet.
ClientPackets ==
    {Pkt("KeepAlive", i) : i \in 0 .. MaxPingId + 1}
        \cup {Pkt(t, 0) : t \in {"Login", "WindowClick"}}

Timer(s, l) == [state |-> s, left |-> l]

\* Go's conversion to int16.
Int16(n) == ((n + 32768) % 65536) - 32768

\* int16(latency.Nanoseconds()/1e6), the latency in seconds
PingMillis(lat) == Int16(lat * 1000)

PlayerListItem(online, p) == [online |-> online, ping |-> p]

----------------------------------------------------------------------------
(* Player.Stop and the keep-alive state machine.                           *)

StopBlocking ==
    /\ stopPlayer < StopPlayerCap
    /\ stopPlayer' = stopPlayer + 1

\* Player.Stop
Stop ==
    stopPlayer' = IF stopPlayer < StopPlayerCap THEN stopPlayer + 1 ELSE stopPlayer

\* Player.pingNew up to its TransmitPacket.
pingNew ==
    IF ping.running
    THEN /\ mainPc' = "loop"
         /\ UNCHANGED ping
    ELSE /\ \E id \in PingIds :
                ping' = [running |-> TRUE, id |-> id,
                         timer |-> IF ping.timer.state = "nil" THEN ping.timer
                                   ELSE Timer("stopped", 0)]
         /\ mainPc' = "pingTx"

pingVerdict_strictOnly(id) ==
    IF id = 0 THEN "ignore"
    ELSE IF ~ping.running THEN "stop"
    ELSE IF id # ping.id THEN "stop"
    ELSE "valid"

pingVerdict_relaxedOnly(id) ==
    IF id = 0 THEN "ignore"
    ELSE IF ~ping.running THEN "ignore"
    ELSE "valid"

\* Player.pingReceived up to "Received valid keep-alive": what becomes of a
\* keep-alive with this id.
pingVerdict(id) ==
    IF id = 0 THEN "ignore"
    ELSE IF playerPingNoCheck
         THEN IF ~ping.running THEN "ignore" ELSE "valid"
         ELSE IF ~ping.running THEN "stop"
              ELSE IF id # ping.id THEN "stop"
              ELSE "valid"

PingIdle == [running |-> FALSE, id |-> 0, timer |-> Timer("armed", PingInterval)]

\* Player.pingReceived up to its BroadcastPacket; latency is
\* now.Sub(player.ping.timestamp) in seconds.
pingReceived(id, latency) ==
    LET verdict == pingVerdict(id)
    IN  IF verdict = "ignore"
        THEN /\ mainPc' = "loop"
             /\ UNCHANGED <<ping, pktPing, stopPlayer>>
        ELSE IF verdict = "stop"
        THEN /\ Stop
             /\ mainPc' = "loop"
             /\ UNCHANGED <<ping, pktPing>>
        ELSE IF latency >= 0 /\ latency < PingTimeout
        THEN /\ ping' = [ping EXCEPT !.timer = Timer("stopped", 0)]
             /\ pktPing' = PingMillis(latency)
             /\ mainPc' = "pingBcast"
             /\ UNCHANGED <<stopPlayer>>
        ELSE /\ ping' = PingIdle
             /\ mainPc' = "loop"
             /\ UNCHANGED <<pktPing, stopPlayer>>

----------------------------------------------------------------------------
(* Player.mainLoop.                                                        *)

\* The deferred calls of mainLoop in the order they run.
DeferOrder_closeFirst ==
    <<"closeSubs", "rxStop", "connClose", "txNil", "onDisconnect", "timerStop",
      "offline", "done">>

DeferOrder ==
    <<"closeSubs", "rxStop", "txNil", "connClose", "onDisconnect", "timerStop",
      "offline", "done">>

NextDefer(pc) ==
    LET i == CHOOSE j \in 1 .. Len(DeferOrder) : DeferOrder[j] = pc
    IN  DeferOrder[i + 1]

\* chunkSubs.Init, pingNew and the "has joined" message, before the loop
MainStart ==
    /\ mainPc = "start"
    /\ lastPkt' = NoPkt
    /\ pingNew
    /\ UNCHANGED <<rxPc, rxPkt, txPc, txQueue, txErrChan, recvErr, ctrl, stopPlayer,
                   connOpen, pktPing, playerPingNoCheck, gamePc, workQueue,
                   registered, playerWrites, chunkPc, shutdownLog, timedOut>>
    /\ SubsInit
    /\ UNCHANGED <<worldVars, moreVars>>

\* Player.pingNew from its TransmitPacket on
MainPingTx ==
    /\ mainPc = "pingTx"
    /\ lastPkt' = NoPkt
    /\ Len(txQueue) < TxQueueCap
    /\ txQueue' = Append(txQueue, "pkt")
    /\ ping' = [ping EXCEPT !.timer = Timer("armed", PingTimeout)]
    /\ mainPc' = "loop"
    /\ UNCHANGED <<rxPc, rxPkt, txPc, txErrChan, recvErr, ctrl, stopPlayer, connOpen,
                   pktPing, playerPingNoCheck, gamePc, workQueue,
                   registered, playerWrites, chunkPc, shutdownLog, timedOut>>
    /\ UNCHANGED <<subsVars, worldVars, moreVars>>

\* case _ = <-player.stopPlayer
MainRecvStop ==
    /\ mainPc = "loop"
    /\ lastPkt' = NoPkt
    /\ stopPlayer > 0
    /\ stopPlayer' = stopPlayer - 1
    /\ mainPc' = DeferOrder[1]
    /\ UNCHANGED <<rxPc, rxPkt, txPc, txQueue, txErrChan, recvErr, ctrl, connOpen,
                   ping, pktPing, playerPingNoCheck, gamePc, workQueue,
                   registered, playerWrites, chunkPc, shutdownLog, timedOut>>
    /\ UNCHANGED <<subsVars, worldVars, moreVars>>

\* case _ = <-player.ping.timer.C: Player.pingTimeout
MainTimer ==
    /\ mainPc = "loop"
    /\ lastPkt' = NoPkt
    /\ ping.timer.state = "fired"
    /\ IF ping.running
       THEN /\ Stop
            /\ ping' = [ping EXCEPT !.timer = Timer("stopped", 0)]
            /\ timedOut' = TRUE
            /\ UNCHANGED mainPc
       ELSE /\ pingNew
            /\ UNCHANGED <<stopPlayer, timedOut>>
    /\ UNCHANGED <<rxPc, rxPkt, txPc, txQueue, txErrChan, recvErr, ctrl, connOpen,
                   pktPing, playerPingNoCheck, gamePc, workQueue, registered,
                   playerWrites, chunkPc, shutdownLog>>
    /\ UNCHANGED <<subsVars, worldVars, moreVars>>

\* Player.handlePacket; latency is what pingReceived measures if it is called
handlePacket(pkt, latency) ==
    IF pkt.type = "KeepAlive" THEN pingReceived(pkt.id, latency)
    ELSE IF pkt.type = "Login"
    THEN /\ Stop
         /\ UNCHANGED <<mainPc, ping, pktPing>>
    ELSE IF pkt.type = "WindowClick"
    THEN /\ mainPc' = "handlerTx"
         /\ UNCHANGED <<stopPlayer, ping, pktPing>>
    ELSE UNCHANGED <<mainPc, stopPlayer, ping, pktPing>>

\* case pkt := <-player.rx.RecvPkt
MainRecvPktAt(latency) ==
    /\ mainPc = "loop"
    /\ rxPc = "send"
    /\ rxPc' = "read"
    /\ rxPkt' = NoPkt
    /\ lastPkt' = rxPkt
    /\ handlePacket(rxPkt, latency)
    /\ UNCHANGED <<txPc, txQueue, txErrChan, recvErr, ctrl, connOpen,
                   playerPingNoCheck, gamePc, workQueue, registered, playerWrites,
                   chunkPc, shutdownLog, timedOut>>
    /\ UNCHANGED <<subsVars, worldVars, moreVars>>

MainRecvPkt == \E latency \in Latencies : MainRecvPktAt(latency)

\* Player.pingReceived from its BroadcastPacket on
MainPingBroadcast ==
    /\ mainPc = "pingBcast"
    /\ lastPkt' = NoPkt
    /\ Len(workQueue) < WorkQueueCap
    /\ workQueue' = Append(workQueue, PlayerListItem(TRUE, pktPing))
    /\ ping' = PingIdle
    /\ pktPing' = 0
    /\ mainPc' = "loop"
    /\ UNCHANGED <<rxPc, rxPkt, txPc, txQueue, txErrChan, recvErr, ctrl, stopPlayer,
                   connOpen, playerPingNoCheck, gamePc, registered, playerWrites,
                   chunkPc, shutdownLog, timedOut>>
    /\ UNCHANGED <<subsVars, worldVars, moreVars>>

\* The TransmitPacket of a packet handler (handlePacketWindowClick)
MainHandlerTx ==
    /\ mainPc = "handlerTx"
    /\ lastPkt' = NoPkt
    /\ Len(txQueue) < TxQueueCap
    /\ txQueue' = Append(txQueue, "pkt")
    /\ mainPc' = "loop"
    /\ UNCHANGED <<rxPc, rxPkt, txPc, txErrChan, recvErr, ctrl, stopPlayer, connOpen,
                   ping, pktPing, playerPingNoCheck, gamePc, workQueue,
                   registered, playerWrites, chunkPc, shutdownLog, timedOut>>
    /\ UNCHANGED <<subsVars, worldVars, moreVars>>

\* case err := <-player.rx.RecvErr
MainRecvErr ==
    /\ mainPc = "loop"
    /\ lastPkt' = NoPkt
    /\ recvErr # << >>
    /\ recvErr' = Tail(recvErr)
    /\ Stop
    /\ UNCHANGED <<mainPc, rxPc, rxPkt, txPc, txQueue, txErrChan, ctrl, connOpen,
                   ping, pktPing, playerPingNoCheck, gamePc, workQueue,
                   registered, playerWrites, chunkPc, shutdownLog, timedOut>>
    /\ UNCHANGED <<subsVars, worldVars, moreVars>>

\* case err := <-player.txErrChan
MainTxErr ==
    /\ mainPc = "loop"
    /\ lastPkt' = NoPkt
    /\ txErrChan # << >>
    /\ txErrChan' = Tail(txErrChan)
    /\ Stop
    /\ UNCHANGED <<mainPc, rxPc, rxPkt, txPc, txQueue, recvErr, ctrl, connOpen,
                   ping, pktPing, playerPingNoCheck, gamePc, workQueue,
                   registered, playerWrites, chunkPc, shutdownLog, timedOut>>
    /\ UNCHANGED <<subsVars, worldVars, moreVars>>

\* defer player.chunkSubs.Close()
MainCloseSubs ==
    /\ mainPc = "closeSubs"
    /\ lastPkt' = NoPkt
    /\ mainPc' = NextDefer("closeSubs")
    /\ Close
    /\ UNCHANGED <<rxPc, rxPkt, txPc, txQueue, txErrChan, recvErr, ctrl, stopPlayer,
                   connOpen, ping, pktPing, playerPingNoCheck, gamePc,
                   workQueue, registered, playerWrites, chunkPc, shutdownLog,
                   timedOut>>
    /\ UNCHANGED <<worldVars, moreVars>>

\* defer player.rx.Stop()
MainRxStop ==
    /\ mainPc = "rxStop"
    /\ lastPkt' = NoPkt
    /\ mainPc' = NextDefer("rxStop")
    /\ ctrl' = IF ctrl < CtrlCap THEN ctrl + 1 ELSE ctrl
    /\ UNCHANGED <<rxPc, rxPkt, txPc, txQueue, txErrChan, recvErr, stopPlayer,
                   connOpen, ping, pktPing, playerPingNoCheck, gamePc,
                   workQueue, registered, playerWrites, chunkPc, shutdownLog,
                   timedOut>>
    /\ UNCHANGED <<subsVars, worldVars, moreVars>>

\* player.txQueue <- nil
MainTxNil ==
    /\ mainPc = "txNil"
    /\ lastPkt' = NoPkt
    /\ Len(txQueue) < TxQueueCap
    /\ txQueue' = Append(txQueue, "nil")
    /\ mainPc' = NextDefer("txNil")
    /\ shutdownLog' = Append(shutdownLog, "txNil")
    /\ UNCHANGED <<rxPc, rxPkt, txPc, txErrChan, recvErr, ctrl, stopPlayer, connOpen,
                   ping, pktPing, playerPingNoCheck, gamePc, workQueue,
                   registered, playerWrites, chunkPc, timedOut>>
    /\ UNCHANGED <<subsVars, worldVars, moreVars>>

\* player.conn.Close()
MainConnClose ==
    /\ mainPc = "connClose"
    /\ lastPkt' = NoPkt
    /\ connOpen' = FALSE
    /\ mainPc' = NextDefer("connClose")
    /\ shutdownLog' = Append(shutdownLog, "connClose")
    /\ UNCHANGED <<rxPc, rxPkt, txPc, txQueue, txErrChan, recvErr, ctrl, stopPlayer,
                   ping, pktPing, playerPingNoCheck, gamePc, workQueue,
                   registered, playerWrites, chunkPc, timedOut>>
    /\ UNCHANGED <<subsVars, worldVars, moreVars>>

\* Game.onPlayerDisconnect
onPlayerDisconnect ==
    /\ registered' = FALSE
    /\ playerWrites' = playerWrites + 1

\* player.onDisconnect <- player.EntityId, received by Game.Serve
MainOnDisconnect ==
    /\ mainPc = "onDisconnect"
    /\ lastPkt' = NoPkt
    /\ gamePc = "idle"
    /\ onPlayerDisconnect
    /\ mainPc' = NextDefer("onDisconnect")
    /\ shutdownLog' = Append(shutdownLog, "onDisconnect")
    /\ UNCHANGED <<rxPc, rxPkt, txPc, txQueue, txErrChan, recvErr, ctrl, stopPlayer,
                   connOpen, ping, pktPing, playerPingNoCheck, gamePc,
                   workQueue, chunkPc, timedOut>>
    /\ UNCHANGED <<subsVars, worldVars, moreVars>>

\* player.ping.timer.Stop()
MainTimerStop ==
    /\ mainPc = "timerStop"
    /\ lastPkt' = NoPkt
    /\ ping' = IF ping.timer.state = "nil" THEN ping
               ELSE [ping EXCEPT !.timer = Timer("stopped", 0)]
    /\ mainPc' = NextDefer("timerStop")
    /\ shutdownLog' = Append(shutdownLog, "timerStop")
    /\ UNCHANGED <<rxPc, rxPkt, txPc, txQueue, txErrChan, recvErr, ctrl, stopPlayer,
                   connOpen, pktPing, playerPingNoCheck, gamePc, workQueue,
                   registered, playerWrites, chunkPc, timedOut>>
    /\ UNCHANGED <<subsVars, worldVars, moreVars>>

\* player.game.BroadcastPacket(&proto.PacketPlayerListItem{player.name, false, 0})
MainOffline ==
    /\ mainPc = "offline"
    /\ lastPkt' = NoPkt
    /\ Len(workQueue) < WorkQueueCap
    /\ workQueue' = Append(workQueue, PlayerListItem(FALSE, 0))
    /\ mainPc' = NextDefer("offline")
    /\ shutdownLog' = Append(shutdownLog, "offline")
    /\ UNCHANGED <<rxPc, rxPkt, txPc, txQueue, txErrChan, recvErr, ctrl, stopPlayer,
                   connOpen, ping, pktPing, playerPingNoCheck, gamePc,
                   registered, playerWrites, chunkPc, timedOut>>
    /\ UNCHANGED <<subsVars, worldVars, moreVars>>

----------------------------------------------------------------------------
(* playerRx.loop and Player.transmitLoop.                                  *)

\* p.pktSerial.ReadPacket(p.conn, true)
RxRead ==
    /\ rxPc = "read"
    /\ \/ /\ connOpen
          /\ \E pkt \in ClientPackets : rxPkt' = pkt
          /\ rxPc' = "send"
       \/ /\ rxPc' = "reportErr"
          /\ UNCHANGED rxPkt
    /\ UNCHANGED <<mainPc, txPc, txQueue, txErrChan, recvErr, ctrl, stopPlayer,
                   connOpen, ping, pktPing, playerPingNoCheck, gamePc,
                   workQueue, registered, playerWrites, chunkPc, shutdownLog,
                   timedOut, lastPkt>>
    /\ UNCHANGED <<subsVars, worldVars, moreVars>>

\* p.recvErr <- err
RxReportErr ==
    /\ rxPc = "reportErr"
    /\ Len(recvErr) < RecvErrCap
    /\ recvErr' = Append(recvErr, "err")
    /\ rxPc' = "failed"
    /\ UNCHANGED <<mainPc, rxPkt, txPc, txQueue, txErrChan, ctrl, stopPlayer,
                   connOpen, ping, pktPing, playerPingNoCheck, gamePc,
                   workQueue, registered, playerWrites, chunkPc, shutdownLog,
                   timedOut, lastPkt>>
    /\ UNCHANGED <<subsVars, worldVars, moreVars>>

\* case _ = <-p.ctrl
RxStopped ==
    /\ rxPc = "send"
    /\ ctrl > 0
    /\ ctrl' = ctrl - 1
    /\ rxPc' = "done"
    /\ rxPkt' = NoPkt
    /\ UNCHANGED <<mainPc, txPc, txQueue, txErrChan, recvErr, stopPlayer, connOpen,
                   ping, pktPing, playerPingNoCheck, gamePc, workQueue,
                   registered, playerWrites, chunkPc, shutdownLog, timedOut, lastPkt>>
    /\ UNCHANGED <<subsVars, worldVars, moreVars>>

\* bs := <-player.txQueue
TxRecv ==
    /\ txPc = "recv"
    /\ txQueue # << >>
    /\ txQueue' = Tail(txQueue)
    /\ txPc' = IF Head(txQueue) = "nil" THEN "reportNil" ELSE "write"
    /\ UNCHANGED <<mainPc, rxPc, rxPkt, txErrChan, recvErr, ctrl, stopPlayer,
                   connOpen, ping, pktPing, playerPingNoCheck, gamePc,
                   workQueue, registered, playerWrites, chunkPc, shutdownLog,
                   timedOut, lastPkt>>
    /\ UNCHANGED <<subsVars, worldVars, moreVars>>

\* player.conn.Write(bs)
TxWrite ==
    /\ txPc = "write"
    /\ \/ /\ connOpen
          /\ txPc' = "recv"
       \/ txPc' = "reportErr"
    /\ UNCHANGED <<mainPc, rxPc, rxPkt, txQueue, txErrChan, recvErr, ctrl, stopPlayer,
                   connOpen, ping, pktPing, playerPingNoCheck, gamePc,
                   workQueue, registered, playerWrites, chunkPc, shutdownLog,
                   timedOut, lastPkt>>
    /\ UNCHANGED <<subsVars, worldVars, moreVars>>

\* player.txErrChan <- nil and player.txErrChan <- err
TxReport ==
    /\ txPc \in {"reportNil", "reportErr"}
    /\ Len(txErrChan) < TxErrChanCap
    /\ txErrChan' = Append(txErrChan, IF txPc = "reportNil" THEN "nil" ELSE "err")
    /\ txPc' = IF txPc = "reportNil" THEN "done" ELSE "failed"
    /\ UNCHANGED <<mainPc, rxPc, rxPkt, txQueue, recvErr, ctrl, stopPlayer, connOpen,
                   ping, pktPing, playerPingNoCheck, gamePc, workQueue,
                   registered, playerWrites, chunkPc, shutdownLog, timedOut, lastPkt>>
    /\ UNCHANGED <<subsVars, worldVars, moreVars>>

----------------------------------------------------------------------------
(* The game loop, a chunk, other callers of Stop, and time.                *)

\* Game.multicastPacket: the loop over game.players
multicastPacket ==
    gamePc' = IF registered THEN "multicast" ELSE "idle"

\* case <-ticker.C: Game.onTick, on a tick that sends the time update
GameTick ==
    /\ gamePc = "idle"
    /\ multicastPacket
    /\ UNCHANGED <<mainPc, rxPc, rxPkt, txPc, txQueue, txErrChan, recvErr, ctrl,
                   stopPlayer, connOpen, ping, pktPing, playerPingNoCheck,
                   workQueue, registered, playerWrites, chunkPc, shutdownLog,
                   timedOut, lastPkt>>
    /\ UNCHANGED <<subsVars, worldVars, moreVars>>

\* case f := <-game.workQueue, f being the closure of Game.BroadcastPacket
GameWork ==
    /\ gamePc = "idle"
    /\ workQueue # << >>
    /\ workQueue' = Tail(workQueue)
    /\ multicastPacket
    /\ UNCHANGED <<mainPc, rxPc, rxPkt, txPc, txQueue, txErrChan, recvErr, ctrl,
                   stopPlayer, connOpen, ping, pktPing, playerPingNoCheck,
                   registered, playerWrites, chunkPc, shutdownLog, timedOut, lastPkt>>
    /\ UNCHANGED <<subsVars, worldVars, moreVars>>

\* Player.TransmitPacket called by Game.multicastPacket
GameTransmit ==
    /\ gamePc = "multicast"
    /\ Len(txQueue) < TxQueueCap
    /\ txQueue' = Append(txQueue, "pkt")
    /\ gamePc' = "idle"
    /\ UNCHANGED <<mainPc, rxPc, rxPkt, txPc, txErrChan, recvErr, ctrl, stopPlayer,
                   connOpen, ping, pktPing, playerPingNoCheck, workQueue,
                   registered, playerWrites, chunkPc, shutdownLog, timedOut, lastPkt>>
    /\ UNCHANGED <<subsVars, worldVars, moreVars>>

\* Chunk.reqMulticastPlayers reaches the player among chunk.subscribers
ChunkMulticast ==
    /\ chunkPc = "idle"
    /\ chunkPc' = "transmit"
    /\ UNCHANGED <<mainPc, rxPc, rxPkt, txPc, txQueue, txErrChan, recvErr, ctrl,
                   stopPlayer, connOpen, ping, pktPing, playerPingNoCheck,
                   gamePc, workQueue, registered, playerWrites, shutdownLog,
                   timedOut, lastPkt>>
    /\ UNCHANGED <<subsVars, worldVars, moreVars>>

\* Player.TransmitPacket called by Chunk.reqMulticastPlayers
ChunkTransmit ==
    /\ chunkPc = "transmit"
    /\ Len(txQueue) < TxQueueCap
    /\ txQueue' = Append(txQueue, "pkt")
    /\ chunkPc' = "idle"
    /\ UNCHANGED <<mainPc, rxPc, rxPkt, txPc, txErrChan, recvErr, ctrl, stopPlayer,
                   connOpen, ping, pktPing, playerPingNoCheck, gamePc,
                   workQueue, registered, playerWrites, shutdownLog, timedOut, lastPkt>>
    /\ UNCHANGED <<subsVars, worldVars, moreVars>>

\* Player.Stop called by a task other than the session's main task
ExternalStop ==
    /\ Stop
    /\ UNCHANGED <<mainPc, rxPc, rxPkt, txPc, txQueue, txErrChan, recvErr, ctrl,
                   connOpen, ping, pktPing, playerPingNoCheck, gamePc,
                   workQueue, registered, playerWrites, chunkPc, shutdownLog,
                   timedOut, lastPkt>>
    /\ UNCHANGED <<subsVars, worldVars, moreVars>>

\* The duration of the armed timer has passed: a value is sent on timer.C.
TimerFire ==
    /\ ping.timer.state = "armed"
    /\ ping' = [ping EXCEPT !.timer.state = "fired"]
    /\ UNCHANGED <<mainPc, rxPc, rxPkt, txPc, txQueue, txErrChan, recvErr, ctrl,
                   stopPlayer, connOpen, pktPing, playerPingNoCheck, gamePc,
                   workQueue, registered, playerWrites, chunkPc, shutdownLog,
                   timedOut, lastPkt>>
    /\ UNCHANGED <<subsVars, worldVars, moreVars>>

----------------------------------------------------------------------------
(* Specifications.                                                         *)

\* NewPlayer and Player.Run: the login packets are queued, the tasks start.
SessInit ==
    /\ mainPc = "start"
    /\ rxPc = "read"
    /\ rxPkt = NoPkt
    /\ txPc = "recv"
    /\ txQueue = <<"pkt">>
    /\ txErrChan = << >>
    /\ recvErr = << >>
    /\ ctrl = 0
    /\ stopPlayer = 0
    /\ connOpen = TRUE
    /\ ping = [running |-> FALSE, id |-> 0, timer |-> Timer("nil", 0)]
    /\ pktPing = 0
    /\ gamePc = "idle"
    /\ workQueue = << >>
    /\ registered = TRUE
    /\ playerWrites = 0
    /\ chunkPc = "idle"
    /\ shutdownLog = << >>
    /\ timedOut = FALSE
    /\ lastPkt = NoPkt

\* The chunk subscriptions before chunkSubscriptions.Init.
SubsBlank ==
    /\ spawnComplete = FALSE
    /\ subsInit = FALSE
    /\ curShardLoc = XZ(0, 0)
    /\ curChunkLoc = XZ(0, 0)
    /\ curShard = NoConn
    /\ shards = << >>
    /\ nextConn = 0
    /\ openConns = {}
    /\ subscribed = {}
    /\ playerDataAt = {}
    /\ height = StanceNormal
    /\ lastHandled = Handled("none")

----------------------------------------------------------------------------
(* The world: bounds and values.                                           *)

\* squareDifference on its own: the centres have coordinates within
\* -SqMaxCoord .. SqMaxCoord and the radius is at most SqMaxRadius.
SqMaxCoord == 2
SqMaxRadius == 2
\* Players that subscribe to a chunk have the entity ids 1 .. MaxPlayers; the
\* player of the session is player 1.
MaxPlayers == 2
\* Non-player entities have the entity ids MaxPlayers + 1 .. MaxPlayers + MaxEntities.
MaxEntities == 2
\* The observers that register with AddOnUnsubscribe are 1 .. MaxObservers,
\* and an entity id has at most MaxObservers registrations.
MaxObservers == 2
\* Number of cells of a chunk.
ChunkCells == 2
\* A shard runs at most MaxTicks ticks.
MaxTicks == 2

PlayerIds == 1 .. MaxPlayers
EntityIds == (MaxPlayers + 1) .. (MaxPlayers + MaxEntities)
Observers == 1 .. MaxObservers
BlockIndexes == 0 .. (ChunkCells - 1)

\* The chunks that the session's player can subscribe to.
SubsChunkMax == (MaxCoord \div ChunkSizeH) + ChunkRadius
SubsChunks == {XZ(x, z) : x \in -SubsChunkMax .. SubsChunkMax,
                          z \in -SubsChunkMax .. SubsChunkMax}
\* The chunks that non-player entities move between: a row of chunks, all but
\* the last one in the shard at (0, 0).
EntityChunks == {XZ(x, 0) : x \in 0 .. ShardSize}
ChunkLocs == SubsChunks \cup EntityChunks
ShardLocs == {ChunkToShardXz(loc) : loc \in ChunkLocs}

RangeOf(s) == {s[i] : i \in DOMAIN s}
NoDuplicates(s) == \A i, j \in DOMAIN s : s[i] = s[j] => i = j

----------------------------------------------------------------------------
(* squareDifference on its own (specification SpecSquare).                 *)

SqCoords == -SqMaxCoord .. SqMaxCoord
SqCentres == {XZ(x, z) : x \in SqCoords, z \in SqCoords}

SquareBlank ==
    /\ sdArgs = [centerA |-> XZ(0, 0), centerB |-> XZ(0, 0), radius |-> 0]
    /\ sdOut = [done |-> FALSE, result |-> << >>]

\* result := squareDifference(centerA, centerB, radius)
CallSquareDifference ==
    /\ ~sdOut.done
    /\ sdOut' = [done |-> TRUE,
                 result |-> squareDifference(sdArgs.centerA, sdArgs.centerB,
                                             sdArgs.radius)]
    /\ UNCHANGED <<sdArgs, chunks, shardQueue, shardTicks, entityMgr, entPos, tx,
                   unsubCalls, lastOp, lastBatch>>
    /\ UNCHANGED <<subsVars, sessVars, moreVars>>

----------------------------------------------------------------------------
(* A chunk (package shardserver, type Chunk).                              *)

\* Block ids are 0 .. MaxBlockId.
MaxBlockId == 2
BlockIdAir == 0
BlockIds == BlockIdAir .. MaxBlockId
\* Block data values: a block's data is half a byte.
BlockDatas == {0, 9}

\* gamerules.Blocks: the block types that the rules know, air and one solid
\* block; the other block ids are not known to the rules.
Blocks == [id \in {BlockIdAir, BlockIdAir + 1} |-> [Solid |-> id # BlockIdAir]]

\* A block position: the chunk it lies in and the cell of the chunk, as
\* BlockXyz.ToChunkLocal splits it.  SubChunkXyz.BlockIndex answers ok for
\* the cells 0 .. ChunkCells - 1.
SubLocs == -1 .. ChunkCells
BlockIndex(subLoc) == [index |-> subLoc, ok |-> subLoc \in BlockIndexes]

\* BlockIndex.BlockId and BlockIndex.SetBlockId: one byte for each cell.
BlockId(blocks, index) == blocks[index]
SetBlockId(blocks, index, blockType) == [blocks EXCEPT ![index] = blockType]

\* BlockIndex.BlockData and BlockIndex.SetBlockData: half a byte for each
\* cell, the even cell in the low half of byte index / 2.
BlockData(data, index) ==
    IF index % 2 = 0 THEN data[index \div 2] % 16 ELSE data[index \div 2] \div 16
SetBlockData(data, index, value) ==
    [data EXCEPT ![index \div 2] =
        IF index % 2 = 0 THEN (@ \div 16) * 16 + (value % 16)
        ELSE (value % 16) * 16 + (@ % 16)]

\* Packets, and the nil slice that an empty bytes.Buffer gives.
NilPacket == [type |-> "nil"]
PacketPreChunk(mode) == [type |-> "PreChunk", mode |-> mode]
PacketMapChunk(blocks, blockData) ==
    [type |-> "MapChunk", blocks |-> blocks, blockData |-> blockData]
PacketBlockChange(index, blockType, blockData) ==
    [type |-> "BlockChange", index |-> index, typeId |-> blockType,
     blockData |-> blockData]
PacketEntityDestroy(entityId) == [type |-> "EntityDestroy", entityId |-> entityId]
\* The spawn packets, or the update packets, of a set of entities written to
\* one buffer: nil when there is no entity to write.
PacketsOf(type, entityIds) ==
    IF entityIds = {} THEN NilPacket ELSE [type |-> type, entityIds |-> entityIds]
\* player.NotifyChunkLoad(), recorded with the packets of the player.
CallNotifyChunkLoad == [type |-> "NotifyChunkLoad"]

\* newChunkFromReader, for a stored chunk of air without entities.
NewChunk ==
    [blocks       |-> [i \in BlockIndexes |-> BlockIdAir],
     blockData    |-> [i \in 0 .. ((ChunkCells + 1) \div 2 - 1) |-> 0],
     entities     |-> {},
     tileEntities |-> {},
     cachedPacket |-> NilPacket,
     subscribers  |-> {},
     playersData  |-> {},
     onUnsub      |-> [p \in PlayerIds |-> << >>],
     storeDirty   |-> FALSE,
     tickAll      |-> TRUE,
     activeBlocks    |-> {},
     newActiveBlocks |-> {}]

\* What an operation of a chunk has done so far: the chunk, the packets
\* transmitted to each player and the calls of Unsubscribed on each observer.
NoOut == [p \in PlayerIds |-> << >>]
NoCalls == [o \in Observers |-> 0]
Ctx(chunk) == [chunk |-> chunk, out |-> NoOut, calls |-> NoCalls]

\* Player.TransmitPacket
TransmitPacket(out, player, packet) ==
    IF packet = NilPacket THEN out ELSE [out EXCEPT ![player] = Append(@, packet)]

\* Chunk.reqMulticastPlayers; exclude is -1 for nobody
reqMulticastPlayers(c, exclude, packet) ==
    [c EXCEPT !.out = [p \in PlayerIds |->
        IF p \in c.chunk.subscribers /\ p # exclude
        THEN TransmitPacket(c.out, p, packet)[p] ELSE c.out[p]]]

\* Chunk.chunkPacket: the chunk with the packet cached
chunkPacket(chunk) ==
    IF chunk.cachedPacket = NilPacket
    THEN [chunk EXCEPT !.cachedPacket = PacketMapChunk(chunk.blocks, chunk.blockData)]
    ELSE chunk

setBlock_keepCache(c, index, blockType, blockData) ==
    LET chunk1 == [c.chunk EXCEPT
                      !.storeDirty = TRUE,
                      !.blocks = SetBlockId(@, index, blockType),
                      !.blockData = SetBlockData(@, index, blockData),
                      !.tileEntities = @ \ {index}]
    IN  reqMulticastPlayers([c EXCEPT !.chunk = chunk1], -1,
                            PacketBlockChange(index, blockType, blockData))

setBlock_noBlockId(c, index, blockType, blockData) ==
    LET chunk1 == [c.chunk EXCEPT
                      !.cachedPacket = NilPacket,
                      !.storeDirty = TRUE,
                      !.blockData = SetBlockData(@, index, blockData),
                      !.tileEntities = @ \ {index}]
    IN  reqMulticastPlayers([c EXCEPT !.chunk = chunk1], -1,
                            PacketBlockChange(index, blockType, blockData))

\* Chunk.setBlock
setBlock(c, index, blockType, blockData) ==
    LET chunk1 == [c.chunk EXCEPT
                      !.cachedPacket = NilPacket,
                      !.storeDirty = TRUE,
                      !.blocks = SetBlockId(@, index, blockType),
                      !.blockData = SetBlockData(@, index, blockData),
                      !.tileEntities = @ \ {index}]
    IN  reqMulticastPlayers([c EXCEPT !.chunk = chunk1], -1,
                            PacketBlockChange(index, blockType, blockData))

\* Chunk.SetTileEntity
SetTileEntity(c, index, present) ==
    [c EXCEPT !.chunk.tileEntities = IF present THEN @ \cup {index} ELSE @ \ {index},
              !.chunk.storeDirty = TRUE]

\* Chunk.BlockQuery for a block of the chunk at chunkLoc, asked of the chunk
\* at loc.  A block of another chunk is looked up by the shard, which knows
\* the chunks that are loaded.
BlockQuery(allChunks, loc, chunkLoc, subLoc) ==
    LET bi == BlockIndex(subLoc)
        same == chunkLoc.X = loc.X /\ chunkLoc.Z = loc.Z
        known == IF same THEN bi.ok ELSE chunkLoc \in DOMAIN allChunks /\ bi.ok
        blockTypeId == BlockId(allChunks[IF same THEN loc ELSE chunkLoc].blocks, bi.index)
    IN  IF ~known THEN [isSolid |-> TRUE, isWithinChunk |-> FALSE]
        ELSE [isSolid |-> IF blockTypeId \in DOMAIN Blocks
                          THEN Blocks[blockTypeId].Solid ELSE TRUE,
              isWithinChunk |-> same]

reqSubscribeChunk_again(c, entityId, notify) ==
    LET chunk1 == chunkPacket([c.chunk EXCEPT !.subscribers = @ \cup {entityId}])
        out1 == TransmitPacket(c.out, entityId, PacketPreChunk("init"))
        out2 == TransmitPacket(out1, entityId, chunk1.cachedPacket)
        out3 == IF notify THEN TransmitPacket(out2, entityId, CallNotifyChunkLoad)
                ELSE out2
        out4 == TransmitPacket(out3, entityId, PacketsOf("Spawn", chunk1.entities))
        out5 == TransmitPacket(out4, entityId,
                               PacketsOf("PlayerSpawn", chunk1.playersData \ {entityId}))
    IN  [c EXCEPT !.chunk = chunk1, !.out = out5]

\* Chunk.reqSubscribeChunk
reqSubscribeChunk(c, entityId, notify) ==
    IF entityId \in c.chunk.subscribers THEN c
    ELSE
        LET chunk1 == chunkPacket([c.chunk EXCEPT !.subscribers = @ \cup {entityId}])
            out1 == TransmitPacket(c.out, entityId, PacketPreChunk("init"))
            out2 == TransmitPacket(out1, entityId, chunk1.cachedPacket)
            out3 == IF notify THEN TransmitPacket(out2, entityId, CallNotifyChunkLoad)
                    ELSE out2
            out4 == TransmitPacket(out3, entityId, PacketsOf("Spawn", chunk1.entities))
            out5 == TransmitPacket(out4, entityId,
                                   PacketsOf("PlayerSpawn", chunk1.playersData \ {entityId}))
        IN  [c EXCEPT !.chunk = chunk1, !.out = out5]

\* The Unsubscribed calls of a slice of observers, one for each element.
CallObservers(calls, observers) ==
    [o \in Observers |->
        calls[o] + Cardinality({i \in DOMAIN observers : observers[i] = o})]

reqUnsubscribeChunk_ifSend(c, entityId, sendPacket) ==
    IF entityId \in c.chunk.subscribers /\ sendPacket
    THEN [c EXCEPT !.chunk.subscribers = @ \ {entityId},
                   !.out = TransmitPacket(@, entityId, PacketPreChunk("unload"))]
    ELSE c

\* Chunk.reqUnsubscribeChunk
reqUnsubscribeChunk(c, entityId, sendPacket) ==
    IF entityId \in c.chunk.subscribers
    THEN [c EXCEPT !.chunk.subscribers = @ \ {entityId},
                   !.chunk.onUnsub[entityId] = << >>,
                   !.calls = CallObservers(@, c.chunk.onUnsub[entityId]),
                   !.out = IF sendPacket
                           THEN TransmitPacket(@, entityId, PacketPreChunk("unload"))
                           ELSE @]
    ELSE c

\* Chunk.AddOnUnsubscribe
AddOnUnsubscribe(c, entityId, observer) ==
    [c EXCEPT !.chunk.onUnsub[entityId] = Append(@, observer)]

\* Chunk.RemoveOnUnsubscribe: the first element equal to observer is
\* replaced by the last one and the slice shortened.
RemoveOnUnsubscribe(c, entityId, observer) ==
    LET observers == c.chunk.onUnsub[entityId]
        found == {i \in DOMAIN observers : observers[i] = observer}
    IN  IF found = {} THEN c
        ELSE LET i == CHOOSE k \in found : \A m \in found : k <= m
                 n == Len(observers)
                 moved == IF i < n THEN [observers EXCEPT ![i] = observers[n]]
                          ELSE observers
             IN  [c EXCEPT !.chunk.onUnsub[entityId] = SubSeq(moved, 1, n - 1)]

\* Chunk.reqAddPlayerData
reqAddPlayerData(c, entityId) ==
    reqMulticastPlayers([c EXCEPT !.chunk.playersData = @ \cup {entityId}], entityId,
                        PacketsOf("PlayerSpawn", {entityId}))

\* Chunk.reqRemovePlayerData
reqRemovePlayerData(c, entityId, isDisconnect) ==
    LET c1 == [c EXCEPT !.chunk.playersData = @ \ {entityId}]
    IN  IF isDisconnect THEN reqMulticastPlayers(c1, entityId, PacketEntityDestroy(entityId))
        ELSE c1

----------------------------------------------------------------------------
(* Items and the players' data (package shardserver, playerData).          *)

\* Positions are in quarters of a block.  The player's bounding box: each
\* side of the player, and from the player's feet upwards.
playerAabH == 3
playerAabY == 8
\* Items are dropped with a PickupImmunity of at most MaxImmunity, and a
\* player is offered an item at most MaxOffers times between two ticks.
MaxImmunity == 1
MaxOffers == 2

Abs(x, y, z) == [X |-> x, Y |-> y, Z |-> z]
\* Where the model drops items, and where the players stand.
ItemPositions == {Abs(x, playerAabY, 0) : x \in {playerAabH, playerAabH + 1}}
PlayerPositions == {Abs(x, 0, 0) : x \in {0, 1}}

\* An entity of the chunk: an Item, or a Mob.
Entity(isItem, pos, immunity) ==
    [isItem |-> isItem, pos |-> pos, PickupImmunity |-> immunity]

\* playerData.OverlapsItem
OverlapsItem(playerPosition, pos) ==
    LET minX == playerPosition.X - playerAabH
        maxX == playerPosition.X + playerAabH
        minZ == playerPosition.Z - playerAabH
        maxZ == playerPosition.Z + playerAabH
        minY == playerPosition.Y
        maxY == playerPosition.Y + playerAabY
    IN  /\ pos.X >= minX /\ pos.X <= maxX
        /\ pos.Y >= minY /\ pos.Y <= maxY
        /\ pos.Z >= minZ /\ pos.Z <= maxZ

PacketItemCollect(collectedItem, collector) ==
    [type |-> "ItemCollect", entityId |-> collectedItem, collector |-> collector]
\* player.OfferItem and player.GiveItemAtPosition, recorded with the packets
\* of the player.
CallOfferItem(entityId) == [type |-> "OfferItem", entityId |-> entityId]
CallGiveItemAtPosition(entityId, pos) ==
    [type |-> "GiveItemAtPosition", entityId |-> entityId, pos |-> pos]

\* No connection is being handled and no function of the codec runs.
RecipeBlank ==
    /\ decoded = << >>
    /\ loaded = [done |-> FALSE]

CoordBlank ==
    /\ coordIn = [X |-> 0, Z |-> 0]
    /\ coordOut = [done |-> FALSE]

\* NewGame: the two registries are empty maps
GameBlank ==
    /\ game = [players |-> << >>, playerNames |-> << >>, fault |-> FALSE]
    /\ workers = << >>

ProtoBlank ==
    /\ login = [pc |-> "none"]
    /\ codecIn = [fn |-> "none"]
    /\ codecOut = [done |-> FALSE]
    /\ GameBlank
    /\ CoordBlank
    /\ RecipeBlank

ItemsBlank ==
    /\ itemData = [e \in EntityIds |-> Entity(FALSE, Abs(0, 0, 0), 0)]
    /\ playerPos = [p \in PlayerIds |-> Abs(0, 0, 0)]
    /\ offers = [p \in PlayerIds |-> [e \in EntityIds |-> 0]]
    /\ pendingTake = {}

----------------------------------------------------------------------------
(* Operations on the chunks (specifications SpecChunk and SpecBlocks).     *)

\* The latest operation: its name, the chunk it ran on and its arguments.
Op(name, loc) ==
    [op |-> name, loc |-> loc, entityId |-> 0, player |-> 0, flag |-> FALSE, observer |-> 0,
     chunkLoc |-> loc, subLoc |-> 0, blockType |-> BlockIdAir, blockData |-> 0,
     isSolid |-> FALSE, isWithinChunk |-> FALSE]

\* An operation has run on the chunk at loc.
ChunkStep(loc, c, op) ==
    /\ chunks' = [chunks EXCEPT ![loc] = c.chunk]
    /\ tx' = c.out
    /\ unsubCalls' = c.calls
    /\ lastOp' = op

\* An operation has run on the chunk at loc, and nothing else has happened.
ChunkOp(loc, c, op) ==
    /\ ChunkStep(loc, c, op)
    /\ UNCHANGED <<shardQueue, shardTicks, entityMgr, entPos, lastBatch, sdArgs, sdOut>>
    /\ UNCHANGED <<subsVars, sessVars, moreVars>>

ReqSubscribeChunk(loc, entityId, notify) ==
    ChunkOp(loc, reqSubscribeChunk(Ctx(chunks[loc]), entityId, notify),
            [Op("reqSubscribeChunk", loc) EXCEPT !.entityId = entityId, !.flag = notify])

ReqUnsubscribeChunk(loc, entityId, sendPacket) ==
    ChunkOp(loc, reqUnsubscribeChunk(Ctx(chunks[loc]), entityId, sendPacket),
            [Op("reqUnsubscribeChunk", loc) EXCEPT !.entityId = entityId,
                                                   !.flag = sendPacket])

CallAddOnUnsubscribe(loc, entityId, observer) ==
    /\ Len(chunks[loc].onUnsub[entityId]) < MaxObservers
    /\ ChunkOp(loc, AddOnUnsubscribe(Ctx(chunks[loc]), entityId, observer),
               [Op("AddOnUnsubscribe", loc) EXCEPT !.entityId = entityId,
                                                   !.observer = observer])

CallRemoveOnUnsubscribe(loc, entityId, observer) ==
    ChunkOp(loc, RemoveOnUnsubscribe(Ctx(chunks[loc]), entityId, observer),
            [Op("RemoveOnUnsubscribe", loc) EXCEPT !.entityId = entityId,
                                                   !.observer = observer])

ReqAddPlayerData(loc, entityId) ==
    ChunkOp(loc, reqAddPlayerData(Ctx(chunks[loc]), entityId),
            [Op("reqAddPlayerData", loc) EXCEPT !.entityId = entityId])

ReqRemovePlayerData(loc, entityId, isDisconnect) ==
    ChunkOp(loc, reqRemovePlayerData(Ctx(chunks[loc]), entityId, isDisconnect),
            [Op("reqRemovePlayerData", loc) EXCEPT !.entityId = entityId,
                                                   !.flag = isDisconnect])

\* Chunk.SetBlockByIndex
SetBlockByIndex(loc, index, blockType, blockData) ==
    ChunkOp(loc, setBlock(Ctx(chunks[loc]), index, blockType, blockData),
            [Op("setBlock", loc) EXCEPT !.subLoc = index, !.blockType = blockType,
                                        !.blockData = blockData])

CallSetTileEntity(loc, index, present) ==
    ChunkOp(loc, SetTileEntity(Ctx(chunks[loc]), index, present),
            [Op("SetTileEntity", loc) EXCEPT !.subLoc = index, !.flag = present])

CallBlockQuery(loc, chunkLoc, subLoc) ==
    LET r == BlockQuery(chunks, loc, chunkLoc, subLoc)
    IN  ChunkOp(loc, Ctx(chunks[loc]),
                [Op("BlockQuery", loc) EXCEPT !.chunkLoc = chunkLoc, !.subLoc = subLoc,
                                              !.isSolid = r.isSolid,
                                              !.isWithinChunk = r.isWithinChunk])

\* The chunk that the specifications SpecChunk and SpecBlocks work on, and a
\* neighbour of it.
Origin == XZ(0, 0)
Neighbour == XZ(1, 0)

ChunksBlank ==
    /\ chunks = [loc \in ChunkLocs |-> NewChunk]
    /\ shardQueue = [s \in ShardLocs |-> << >>]
    /\ shardTicks = [s \in ShardLocs |-> 0]
    /\ entityMgr = {}
    /\ entPos = [e \in EntityIds |-> [chunkLoc |-> Origin, alive |-> TRUE]]
    /\ tx = NoOut
    /\ unsubCalls = NoCalls
    /\ lastOp = Op("none", Origin)
    /\ lastBatch = << >>
    /\ ItemsBlank
    /\ ProtoBlank

WorldBlank == ChunksBlank /\ SquareBlank

InitWorld ==
    /\ SessInit
    /\ playerPingNoCheck = FALSE
    /\ position = XZ(0, 0)
    /\ SubsBlank
    /\ WorldBlank

\* Subscriptions and their observers.
NextChunk ==
    \/ \E p \in PlayerIds, notify \in BOOLEAN : ReqSubscribeChunk(Origin, p, notify)
    \/ \E p \in PlayerIds, sendPacket \in BOOLEAN : ReqUnsubscribeChunk(Origin, p, sendPacket)
    \/ \E p \in PlayerIds, o \in Observers : CallAddOnUnsubscribe(Origin, p, o)
    \/ \E p \in PlayerIds, o \in Observers : CallRemoveOnUnsubscribe(Origin, p, o)
    \/ \E p \in PlayerIds : ReqAddPlayerData(Origin, p)
    \/ \E p \in PlayerIds, isDisconnect \in BOOLEAN : ReqRemovePlayerData(Origin, p, isDisconnect)

SpecChunk == InitWorld /\ [][NextChunk]_vars

\* Blocks, the cached packet and the subscribers that receive it.
NextBlocks ==
    \/ \E i \in BlockIndexes, id \in BlockIds, data \in BlockDatas :
          SetBlockByIndex(Origin, i, id, data)
    \/ \E i \in BlockIndexes, present \in BOOLEAN : CallSetTileEntity(Origin, i, present)
    \/ \E chunkLoc \in {Origin, Neighbour}, subLoc \in SubLocs :
          CallBlockQuery(Origin, chunkLoc, subLoc)
    \/ \E p \in PlayerIds : ReqSubscribeChunk(Origin, p, FALSE)
    \/ \E p \in PlayerIds : ReqUnsubscribeChunk(Origin, p, TRUE)

SpecBlocks == InitWorld /\ [][NextBlocks]_vars

----------------------------------------------------------------------------
(* The session's requests and the shards that serve them (specification    *)
(* SpecShard).                                                             *)

\* A move waits while more than MaxPending requests of the session are
\* queued at the shards.
MaxPending == 2

\* The requests are sent to the shards of their chunks: each one is appended
\* to the request queue of its shard.
RECURSIVE Enqueue(_, _)
Enqueue(queues, reqs) ==
    IF reqs = << >> THEN queues
    ELSE Enqueue([queues EXCEPT ![ChunkToShardXz(Head(reqs).chunkLoc)] =
                      Append(@, Head(reqs))],
                 Tail(reqs))

\* The chunks of the ReqSubscribeChunk calls among the requests, in the order
\* of the calls.
SubscribeBatch(reqs) ==
    LET isSubscribe(r) == r.op = "ReqSubscribeChunk"
        calls == SelectSeq(reqs, isSubscribe)
    IN  [i \in 1 .. Len(calls) |-> calls[i].chunkLoc]

\* The requests that chunkSubscriptions.Init sends.
InitRequests ==
    LET empty == [shards |-> << >>, nextConn |-> nextConn,
                  openConns |-> openConns, subscribed |-> subscribed,
                  reqs |-> << >>]
    IN  Append(subscribeToChunks(empty, orderedChunkSquare(ToChunkXz(position),
                                                           ChunkRadius)).reqs,
               Request("ReqAddPlayerData", ToChunkXz(position)))

\* The requests that Player.handleMove sends through chunkSubscriptions.Move
\* and moveToChunk.
MoveRequests(newPos) ==
    LET newChunkLoc == ToChunkXz(newPos)
    IN  IF /\ spawnComplete
           /\ IsWithinDistanceOf(position, newPos, MaxMoveDistance)
           /\ (newChunkLoc.X # curChunkLoc.X \/ newChunkLoc.Z # curChunkLoc.Z)
        THEN moveToChunk(newChunkLoc).st.reqs
        ELSE << >>

\* The positions of the player in specification SpecShard: it walks along
\* the X axis.
ShardPositions == {p \in Positions : p.Z = 0}

Pending == {s \in ShardLocs : shardQueue[s] # << >>}

\* The shards work independently of each other and the requests of two
\* shards are for different chunks, so that the order in which two shards
\* take their requests makes no difference to any chunk.  The model lets the
\* pending shard that comes first, by X and then by Z, take its next request.
FirstPending ==
    CHOOSE s \in Pending :
        \A t \in Pending : s.X < t.X \/ (s.X = t.X /\ s.Z <= t.Z)

RECURSIVE SumLen(_, _)
SumLen(queues, locs) ==
    IF locs = {} THEN 0
    ELSE LET s == CHOOSE x \in locs : TRUE
         IN  Len(queues[s]) + SumLen(queues, locs \ {s})

\* chunkSubscriptions.Init with its requests
ShardSubsInit ==
    /\ SubsInit
    /\ shardQueue' = Enqueue(shardQueue, InitRequests)
    /\ lastBatch' = SubscribeBatch(InitRequests)
    /\ UNCHANGED <<chunks, shardTicks, entityMgr, entPos, tx, unsubCalls, lastOp,
                   sdArgs, sdOut>>
    /\ UNCHANGED <<sessVars, itemVars, protoVars>>

\* Player.handleMove with its requests
ShardHandleMove(newPos) ==
    /\ SumLen(shardQueue, Pending) <= MaxPending
    /\ HandleMove(newPos)
    /\ shardQueue' = Enqueue(shardQueue, MoveRequests(newPos))
    /\ lastBatch' = IF MoveRequests(newPos) = << >> THEN lastBatch
                    ELSE SubscribeBatch(MoveRequests(newPos))
    /\ UNCHANGED <<chunks, shardTicks, entityMgr, entPos, tx, unsubCalls, lastOp,
                   sdArgs, sdOut>>
    /\ UNCHANGED <<sessVars, itemVars, protoVars>>

\* The shard takes the next request from its queue and runs it on the chunk:
\* a subscription request or a playerData request of the session's player.
ShardRequest(s) ==
    /\ shardQueue[s] # << >>
    /\ s = FirstPending
    /\ Head(shardQueue[s]).op \in {"ReqSubscribeChunk", "ReqUnsubscribeChunk",
                                   "ReqAddPlayerData", "ReqRemovePlayerData"}
    /\ LET r == Head(shardQueue[s])
           c == Ctx(chunks[r.chunkLoc])
           c1 == CASE r.op = "ReqSubscribeChunk" -> reqSubscribeChunk(c, 1, FALSE)
                   [] r.op = "ReqUnsubscribeChunk" -> reqUnsubscribeChunk(c, 1, TRUE)
                   [] r.op = "ReqAddPlayerData" -> reqAddPlayerData(c, 1)
                   [] OTHER -> reqRemovePlayerData(c, 1, FALSE)
       IN  chunks' = [chunks EXCEPT ![r.chunkLoc] = c1.chunk]
    /\ shardQueue' = [shardQueue EXCEPT ![s] = Tail(@)]
    /\ UNCHANGED <<shardTicks, entityMgr, entPos, tx, unsubCalls, lastOp, lastBatch,
                   sdArgs, sdOut>>
    /\ UNCHANGED <<subsVars, sessVars, moreVars>>

NextShard ==
    \/ ShardSubsInit
    \/ NotifyChunkLoad
    \/ \E newPos \in ShardPositions : ShardHandleMove(newPos)
    \/ \E s \in ShardLocs : ShardRequest(s)
    \/ TxRecv \/ TxWrite \/ TxReport

InitShard ==
    /\ SessInit
    /\ playerPingNoCheck = FALSE
    /\ position \in ShardPositions
    /\ SubsBlank
    /\ WorldBlank

SpecShard == InitShard /\ [][NextShard]_vars

----------------------------------------------------------------------------
(* Non-player entities, the ticks of the chunks and the transfer of        *)
(* entities between chunks (specification SpecEntities).                   *)

\* What a tick has done so far to the world.
World == [chunks |-> chunks, out |-> NoOut, entityMgr |-> entityMgr,
          queue |-> shardQueue, entPos |-> entPos]

\* A position of an entity: the chunk it is over, and whether Y > 0.
EntityAt(chunkLoc, alive) == [chunkLoc |-> chunkLoc, alive |-> alive]

\* What INonPlayerEntity.Tick does to an entity in one tick: it stays in the
\* chunk, it falls to Y <= 0, or it moves over another chunk with Y > 0.
\* Tick returns true in the last two cases.
Outcomes == {XZ(-1, -1)} \cup EntityChunks
Falls == XZ(-1, -1)
Tick(w, loc, e, outcome) ==
    IF outcome = Falls THEN [w EXCEPT !.entPos[e] = EntityAt(loc, FALSE)]
    ELSE [w EXCEPT !.entPos[e] = EntityAt(outcome, TRUE)]
TickLeft(loc, outcome) == outcome # loc

\* The least entity id of a set: the model visits the entities of a chunk in
\* the order of their ids, Go in an order of its own.
MinOf(ids) == CHOOSE e \in ids : \A f \in ids : e <= f

\* The destination chunk takes possession: a ReqTransferEntity request in the
\* queue of the destination's shard, with the sending shard and its tick.
TransferRequest(chunkLoc, e, from, tick) ==
    [op |-> "ReqTransferEntity", chunkLoc |-> chunkLoc, entity |-> e,
     from |-> from, tick |-> tick]

\* Chunk.removeEntity
removeEntity(w, loc, e) ==
    LET c == reqMulticastPlayers([chunk |-> w.chunks[loc], out |-> w.out,
                                  calls |-> NoCalls],
                                 -1, PacketEntityDestroy(e))
    IN  [w EXCEPT !.entityMgr = @ \ {e},
                  !.chunks[loc].entities = @ \ {e},
                  !.chunks[loc].storeDirty = TRUE,
                  !.out = c.out]

\* The first loop of Chunk.spawnTick over the entities in todo: the world,
\* and the outgoing entities.
RECURSIVE spawnTickEntities(_, _, _, _, _)
spawnTickEntities(w, loc, todo, outcome, outgoing) ==
    IF todo = {} THEN [w |-> w, outgoing |-> outgoing]
    ELSE LET e == MinOf(todo)
             w1 == Tick(w, loc, e, outcome[e])
         IN  IF TickLeft(loc, outcome[e])
             THEN IF ~w1.entPos[e].alive
                  THEN spawnTickEntities(removeEntity(w1, loc, e), loc, todo \ {e},
                                         outcome, outgoing)
                  ELSE spawnTickEntities(w1, loc, todo \ {e}, outcome,
                                         outgoing \cup {e})
             ELSE spawnTickEntities(w1, loc, todo \ {e}, outcome, outgoing)

\* The second loop of Chunk.spawnTick: the outgoing entities leave the chunk
\* and are sent to the shards of their positions.
RECURSIVE transferOutgoing(_, _, _, _)
transferOutgoing(w, loc, outgoing, tick) ==
    IF outgoing = {} THEN w
    ELSE LET e == MinOf(outgoing)
             chunkLoc == w.entPos[e].chunkLoc
             shardLoc == ChunkToShardXz(chunkLoc)
             w1 == [w EXCEPT !.chunks[loc].entities = @ \ {e},
                             !.queue[shardLoc] =
                                 Append(@, TransferRequest(chunkLoc, e,
                                                           ChunkToShardXz(loc), tick))]
         IN  transferOutgoing(w1, loc, outgoing \ {e}, tick)

\* Chunk.spawnTick
spawnTick(w, loc, outcome, tick) ==
    IF w.chunks[loc].entities = {} THEN w
    ELSE LET r == spawnTickEntities(w, loc, w.chunks[loc].entities, outcome, {})
             w1 == transferOutgoing(r.w, loc, r.outgoing, tick)
         IN  [w1 EXCEPT !.chunks[loc].storeDirty = TRUE]

\* Chunk.tick: the spawn tick and the block tick.  The model has no active
\* blocks, so that the block tick only clears tickAll.
tick(w, loc, outcome, tick_) ==
    [spawnTick(w, loc, outcome, tick_) EXCEPT !.chunks[loc].tickAll = FALSE]

sendUpdate_first(w, loc) ==
    LET ids == w.chunks[loc].entities
        c == reqMulticastPlayers([chunk |-> w.chunks[loc], out |-> w.out,
                                  calls |-> NoCalls],
                                 -1,
                                 PacketsOf("Update", IF ids = {} THEN {} ELSE {MinOf(ids)}))
    IN  [w EXCEPT !.out = c.out]

\* Chunk.sendUpdate
sendUpdate(w, loc) ==
    LET c == reqMulticastPlayers([chunk |-> w.chunks[loc], out |-> w.out,
                                  calls |-> NoCalls],
                                 -1, PacketsOf("Update", w.chunks[loc].entities))
    IN  [w EXCEPT !.out = c.out]

\* Chunk.transferEntity
transferEntity(chunk, e) ==
    [chunk EXCEPT !.entities = @ \cup {e}, !.storeDirty = TRUE]

\* Chunk.AddEntity
AddEntity(c, e) ==
    LET c1 == [c EXCEPT !.chunk.entities = @ \cup {e}]
        c2 == reqMulticastPlayers(c1, -1, PacketsOf("Spawn", {e}))
    IN  [c2 EXCEPT !.chunk.storeDirty = TRUE]

\* The chunks of a shard, and the tick of a shard: every chunk of the shard
\* runs its tick and then sends its update.
ChunksOfShard(s) == {loc \in EntityChunks : ChunkToShardXz(loc) = s}
MinChunk(locs) == CHOOSE loc \in locs : \A m \in locs : loc.X <= m.X

RECURSIVE tickChunks(_, _, _, _)
tickChunks(w, locs, outcome, tick_) ==
    IF locs = {} THEN w
    ELSE LET loc == MinChunk(locs)
         IN  tickChunks(sendUpdate(tick(w, loc, outcome, tick_), loc),
                        locs \ {loc}, outcome, tick_)

\* The entities in the chunks of a shard, and what their Tick can do in one
\* tick: an entity moves no further than the next chunk.
EntitiesOfShard(s) == UNION {chunks[loc].entities : loc \in ChunksOfShard(s)}
Adjacent(a, b) == a.Z = b.Z /\ a.X - b.X \in -1 .. 1
TickOutcomes(s) ==
    {outcome \in [EntitiesOfShard(s) -> Outcomes] :
        \A loc \in ChunksOfShard(s) : \A e \in chunks[loc].entities :
            outcome[e] = Falls \/ Adjacent(outcome[e], loc)}

\* A tick of a shard in which the entities' Tick does what outcome says.
ShardTickWith(s, outcomes) ==
    /\ shardTicks[s] < MaxTicks
    /\ ChunksOfShard(s) # {}
    /\ \E outcome \in outcomes :
          LET w == tickChunks(World, ChunksOfShard(s), outcome, shardTicks[s] + 1)
          IN  /\ chunks' = w.chunks
              /\ tx' = w.out
              /\ entityMgr' = w.entityMgr
              /\ shardQueue' = w.queue
              /\ entPos' = w.entPos
    /\ shardTicks' = [shardTicks EXCEPT ![s] = @ + 1]
    /\ unsubCalls' = NoCalls
    /\ lastOp' = Op("tick", s)
    /\ offers' = [p \in PlayerIds |-> [e \in EntityIds |->
                      IF e \in EntitiesOfShard(s) THEN 0 ELSE offers[p][e]]]
    /\ UNCHANGED <<itemData, playerPos, pendingTake, moveVars, protoVars>>
    /\ UNCHANGED <<lastBatch, sdArgs, sdOut>>
    /\ UNCHANGED <<subsVars, sessVars>>

ShardTick(s) == ShardTickWith(s, TickOutcomes(s))

\* The shard takes the next request from its queue: an entity for one of its
\* chunks.
ShardTransfer(s) ==
    /\ shardQueue[s] # << >>
    /\ Head(shardQueue[s]).op = "ReqTransferEntity"
    /\ LET r == Head(shardQueue[s])
       IN  /\ chunks' = [chunks EXCEPT ![r.chunkLoc] = transferEntity(@, r.entity)]
           /\ lastOp' = [Op("transferEntity", r.chunkLoc) EXCEPT !.entityId = r.entity]
    /\ shardQueue' = [shardQueue EXCEPT ![s] = Tail(@)]
    /\ tx' = NoOut
    /\ unsubCalls' = NoCalls
    /\ UNCHANGED <<shardTicks, entityMgr, entPos, lastBatch, sdArgs, sdOut>>
    /\ UNCHANGED <<subsVars, sessVars, moreVars>>

\* An item or a mob appears in a chunk; entityMgr.NewEntity gives it an id
\* that no entity has.
CallAddEntity(loc) ==
    \E e \in EntityIds \ entityMgr :
        /\ ChunkStep(loc, AddEntity(Ctx(chunks[loc]), e),
                     [Op("AddEntity", loc) EXCEPT !.entityId = e])
        /\ entityMgr' = entityMgr \cup {e}
        /\ entPos' = [entPos EXCEPT ![e] = EntityAt(loc, TRUE)]
        /\ UNCHANGED <<shardQueue, shardTicks, lastBatch, sdArgs, sdOut>>
        /\ UNCHANGED <<subsVars, sessVars, moreVars>>

NextEntities ==
    \/ \E loc \in EntityChunks : CallAddEntity(loc)
    \/ \E s \in ShardLocs : ShardTick(s)
    \/ \E s \in ShardLocs : ShardTransfer(s)
    \/ ReqSubscribeChunk(Neighbour, 1, FALSE)
    \/ ReqUnsubscribeChunk(Neighbour, 1, TRUE)

SpecEntities == InitWorld /\ [][NextEntities]_vars

----------------------------------------------------------------------------
(* Items: dropping, offering and taking them (specification SpecItems).    *)

\* The entity manager gives a new entity the least id that no entity has.
NewEntity ==
    IF EntityIds \subseteq entityMgr THEN 0 ELSE MinOf(EntityIds \ entityMgr)

\* Chunk.reqDropItem: gamerules.NewItem and Chunk.AddEntity
ReqDropItem(loc, pos, pickupImmunity) ==
    \E e \in {NewEntity} \cap EntityIds :
        /\ ChunkStep(loc, AddEntity(Ctx(chunks[loc]), e),
                     [Op("reqDropItem", loc) EXCEPT !.entityId = e])
        /\ entityMgr' = entityMgr \cup {e}
        /\ entPos' = [entPos EXCEPT ![e] = EntityAt(loc, TRUE)]
        /\ itemData' = [itemData EXCEPT ![e] = Entity(TRUE, pos, pickupImmunity)]
        /\ UNCHANGED <<playerPos, offers, pendingTake, moveVars, protoVars>>
        /\ UNCHANGED <<shardQueue, shardTicks, lastBatch, sdArgs, sdOut>>
        /\ UNCHANGED <<subsVars, sessVars>>

\* A mob spawns in the chunk: Chunk.AddEntity for an entity that is no Item.
CallAddMob(loc, pos) ==
    \E e \in {NewEntity} \cap EntityIds :
        /\ ChunkStep(loc, AddEntity(Ctx(chunks[loc]), e),
                     [Op("AddEntity", loc) EXCEPT !.entityId = e])
        /\ entityMgr' = entityMgr \cup {e}
        /\ entPos' = [entPos EXCEPT ![e] = EntityAt(loc, TRUE)]
        /\ itemData' = [itemData EXCEPT ![e] = Entity(FALSE, pos, 0)]
        /\ UNCHANGED <<playerPos, offers, pendingTake, moveVars, protoVars>>
        /\ UNCHANGED <<shardQueue, shardTicks, lastBatch, sdArgs, sdOut>>
        /\ UNCHANGED <<subsVars, sessVars>>

\* Chunk.items
items(chunk, data) == {e \in chunk.entities : data[e].isItem}

\* The loop of Chunk.reqSetPlayerPosition over the items in todo, in the
\* order of their ids: the packets and calls, the items and the offers made.
RECURSIVE offerItems(_, _, _, _, _, _)
offerItems(out, data, offered, todo, entityId, playerPosition) ==
    IF todo = {} THEN [out |-> out, data |-> data, offered |-> offered]
    ELSE LET e == MinOf(todo)
         IN  IF data[e].PickupImmunity > 0
             THEN offerItems(out, [data EXCEPT ![e].PickupImmunity = @ - 1], offered,
                             todo \ {e}, entityId, playerPosition)
             ELSE IF OverlapsItem(playerPosition, data[e].pos)
             THEN offerItems(TransmitPacket(out, entityId, CallOfferItem(e)), data,
                             offered \cup {e}, todo \ {e}, entityId, playerPosition)
             ELSE offerItems(out, data, offered, todo \ {e}, entityId, playerPosition)

\* Chunk.reqSetPlayerPosition
reqSetPlayerPosition(c, data, entityId, pos) ==
    IF entityId \notin c.chunk.playersData
    THEN [c |-> c, data |-> data, offered |-> {}, position |-> playerPos[entityId]]
    ELSE LET c1 == reqMulticastPlayers(c, entityId, PacketsOf("PlayerUpdate", {entityId}))
         IN  IF entityId \in c.chunk.subscribers
             THEN LET r == offerItems(c1.out, data, {}, items(c.chunk, data), entityId, pos)
                  IN  [c |-> [c1 EXCEPT !.out = r.out], data |-> r.data,
                       offered |-> r.offered, position |-> pos]
             ELSE [c |-> c1, data |-> data, offered |-> {}, position |-> pos]

ReqSetPlayerPosition(loc, entityId, pos) ==
    LET r == reqSetPlayerPosition(Ctx(chunks[loc]), itemData, entityId, pos)
    IN  /\ \A e \in r.offered : offers[entityId][e] < MaxOffers
        /\ ChunkStep(loc, r.c, [Op("reqSetPlayerPosition", loc) EXCEPT !.player = entityId])
        /\ itemData' = r.data
        /\ playerPos' = [playerPos EXCEPT ![entityId] = r.position]
        /\ offers' = [offers EXCEPT ![entityId] =
                          [e \in EntityIds |-> IF e \in r.offered THEN @[e] + 1 ELSE @[e]]]
        \* Player.offerItem answers an offer with ReqTakeItem
        /\ pendingTake' = pendingTake \cup {<<entityId, e>> : e \in r.offered}
        /\ UNCHANGED <<moveVars, protoVars>>
        /\ UNCHANGED <<shardQueue, shardTicks, entityMgr, entPos, lastBatch, sdArgs, sdOut>>
        /\ UNCHANGED <<subsVars, sessVars>>

\* Chunk.reqTakeItem
reqTakeItem(w, data, loc, player, entityId) ==
    IF entityId \in w.chunks[loc].entities /\ data[entityId].isItem
    THEN LET out1 == TransmitPacket(w.out, player,
                                    CallGiveItemAtPosition(entityId, data[entityId].pos))
             c == reqMulticastPlayers([chunk |-> w.chunks[loc], out |-> out1,
                                       calls |-> NoCalls],
                                      -1, PacketItemCollect(entityId, player))
         IN  removeEntity([w EXCEPT !.out = c.out], loc, entityId)
    ELSE w

\* The shard serves the ReqTakeItem request with which a player has answered
\* an offer.
ReqTakeItem(loc, player, entityId) ==
    /\ <<player, entityId>> \in pendingTake
    /\ LET w == reqTakeItem(World, itemData, loc, player, entityId)
       IN  /\ chunks' = w.chunks
           /\ tx' = w.out
           /\ entityMgr' = w.entityMgr
    /\ pendingTake' = pendingTake \ {<<player, entityId>>}
    /\ unsubCalls' = NoCalls
    /\ lastOp' = [Op("reqTakeItem", loc) EXCEPT !.player = player, !.entityId = entityId]
    \* an entity that has left the chunk and the manager is gone
    /\ itemData' = [e \in EntityIds |->
                       IF e \in entityMgr' THEN itemData[e]
                       ELSE Entity(FALSE, Abs(0, 0, 0), 0)]
    /\ UNCHANGED <<playerPos, offers, moveVars, protoVars>>
    /\ UNCHANGED <<shardQueue, shardTicks, entPos, lastBatch, sdArgs, sdOut>>
    /\ UNCHANGED <<subsVars, sessVars>>

\* The tick of the shard of the chunk, with items and mobs at rest.
TickAtRest(loc) ==
    ShardTickWith(ChunkToShardXz(loc),
                  {[e \in EntitiesOfShard(ChunkToShardXz(loc)) |-> entPos[e].chunkLoc]})

NextItems ==
    \/ \E pos \in ItemPositions, immunity \in 0 .. MaxImmunity :
          ReqDropItem(Origin, pos, immunity)
    \/ CallAddMob(Origin, Abs(playerAabH, playerAabY, 0))
    \/ \E pos \in PlayerPositions : ReqSetPlayerPosition(Origin, 1, pos)
    \/ \E e \in EntityIds : ReqTakeItem(Origin, 1, e)
    \/ TickAtRest(Origin)
    \/ ReqSubscribeChunk(Origin, 1, FALSE)
    \/ ReqAddPlayerData(Origin, 1)

SpecItems == InitWorld /\ [][NextItems]_vars

InitSquare ==
    /\ SessInit
    /\ playerPingNoCheck = FALSE
    /\ position = XZ(0, 0)
    /\ SubsBlank
    /\ ChunksBlank
    /\ sdArgs \in [centerA : SqCentres, centerB : SqCentres, radius : 0 .. SqMaxRadius]
    /\ sdOut = [done |-> FALSE, result |-> << >>]

NextSquare == CallSquareDifference

SpecSquare == InitSquare /\ [][NextSquare]_vars

Init ==
    /\ SessInit
    /\ playerPingNoCheck \in BOOLEAN
    /\ position = XZ(0, 0)
    /\ SubsBlank
    /\ WorldBlank

Next ==
    \/ MainStart \/ MainPingTx \/ MainTimer \/ MainRecvPkt \/ MainPingBroadcast
    \/ MainHandlerTx \/ MainRecvErr \/ MainTxErr \/ MainRecvStop
    \/ MainCloseSubs \/ MainRxStop \/ MainTxNil \/ MainConnClose
    \/ MainOnDisconnect \/ MainTimerStop \/ MainOffline
    \/ RxRead \/ RxReportErr \/ RxStopped
    \/ TxRecv \/ TxWrite \/ TxReport
    \/ GameTick \/ GameWork \/ GameTransmit
    \/ ChunkMulticast \/ ChunkTransmit
    \/ ExternalStop
    \/ TimerFire

Spec == Init /\ [][Next]_vars

\* The scheduling of the server's tasks.  A select of Go takes one of its
\* ready cases at random and the senders blocked on a channel are served
\* first come first served, so a task that is ready again and again gets its
\* turn; the client, the timer and the callers of Stop owe nothing.  The
\* first conjunct is the weak fairness of MainStart, which is enabled exactly
\* when mainPc = "start" and which the main task never returns to.
Fairness ==
    /\ []<>(mainPc # "start") /\ WF_vars(MainCloseSubs) /\ WF_vars(MainRxStop)
    /\ WF_vars(MainConnClose) /\ WF_vars(MainTimerStop)
    /\ SF_vars(MainRecvStop) /\ SF_vars(MainTimer) /\ SF_vars(MainRecvPkt)
    /\ SF_vars(MainRecvErr) /\ SF_vars(MainTxErr)
    /\ SF_vars(MainPingTx) /\ SF_vars(MainHandlerTx) /\ SF_vars(MainPingBroadcast)
    /\ SF_vars(MainTxNil) /\ SF_vars(MainOnDisconnect) /\ SF_vars(MainOffline)
    /\ WF_vars(TxRecv) /\ WF_vars(TxWrite) /\ WF_vars(TxReport)
    /\ WF_vars(RxReportErr) /\ WF_vars(RxStopped)
    /\ WF_vars(GameWork) /\ SF_vars(GameTransmit) /\ SF_vars(ChunkTransmit)

FairSpec == Spec /\ Fairness

InitSubs ==
    /\ SessInit
    /\ playerPingNoCheck = FALSE
    /\ position \in Positions
    /\ SubsBlank
    /\ WorldBlank

NextSubs ==
    \/ (SubsInit /\ UNCHANGED <<sessVars, worldVars, itemVars, protoVars>>)
    \/ NotifyChunkLoad
    \/ \E newPos \in Positions : (HandleMove(newPos) /\ UNCHANGED <<sessVars, worldVars, itemVars, protoVars>>)
    \/ TxRecv \/ TxWrite \/ TxReport

SpecSubs == InitSubs /\ [][NextSubs]_vars

\* The position packets and chat messages of a player that walks along the
\* X axis (specification SpecPackets).
HandlePacketPlayerPosition(newPos, stance) ==
    handleMove(newPos, stance, TRUE) /\ UNCHANGED <<sessVars, worldVars, itemVars, protoVars>>

NextPackets ==
    \/ (SubsInit /\ UNCHANGED <<sessVars, worldVars, itemVars, protoVars>>)
    \/ NotifyChunkLoad
    \/ \E newPos \in ShardPositions, stance \in Stances :
          HandlePacketPlayerPosition(newPos, stance)
    \/ \E message \in ChatMessages : HandlePacketChatMessage(message)
    \/ TxRecv \/ TxWrite \/ TxReport

SpecPackets == InitShard /\ [][NextPackets]_vars

----------------------------------------------------------------------------
(* A connection before the login: pktHandler (specification SpecLogin).    *)

\* The reasons that the client is shown.
clientErrGeneral == "Server error."
clientErrUsername == "Bad username."
clientErrLoginDenied == "You do not have access to this server."
clientErrHandshake == "Handshake error."
clientErrLoginGeneral == "Login error."
clientErrAuthFailed == "Minecraft authentication failed."
clientErrUserData == "Error reading user data. Please contact the server administrator."
\* handleServerQuery's answer: description, player count and maximum.
ServerQueryAnswer == "desc/0/1"
\* The errors that are only logged.
loginErrorConnType == "unknown/bad connection type"
loginErrorMaintenance == "server under maintenance"
loginErrorServerList == "server list poll"
Nil == "nil"

\* validPlayerUsername: ^[\-a-zA-Z0-9_]+$ over sequences of characters
UsernameChars ==
    {"-", "_", "0", "1", "2", "3", "4", "5", "6", "7", "8", "9",
     "a", "b", "c", "d", "e", "f", "g", "h", "i", "j", "k", "l", "m",
     "n", "o", "p", "q", "r", "s", "t", "u", "v", "w", "x", "y", "z",
     "A", "B", "C", "D", "E", "F", "G", "H", "I", "J", "K", "L", "M",
     "N", "O", "P", "Q", "R", "S", "T", "U", "V", "W", "X", "Y", "Z"}
validPlayerUsername(username) ==
    Len(username) >= 1 /\ \A i \in DOMAIN username : username[i] \in UsernameChars

\* The usernames of the clients and the maintenance messages of the server.
Usernames ==
    {<<"a">>, <<"Z", "-", "_", "9">>, <<"b", "0", "b">>, <<"_">>,
     << >>, <<"a", " ">>, <<"!", "b">>, <<"a", "$">>}
MaintenanceMsgs == {"", "Back soon"}

PacketHandshake == [type |-> "Handshake"]
PacketDisconnect(reason) == [type |-> "Disconnect", reason |-> reason]

\* A pktHandler for a new connection of a server with this maintenance
\* message.  passed is the history of the checks passed, protoErr whether a
\* packet of the client could not be read.
NewLogin(maintenanceMsg) ==
    [pc |-> "handle", maintenanceMsg |-> maintenanceMsg, username |-> << >>,
     has |-> FALSE, authenticated |-> FALSE, authErr |-> FALSE,
     err |-> Nil, clientErr |-> Nil, sent |-> << >>, closed |-> FALSE,
     connected |-> FALSE, entities |-> 0, passed |-> << >>, protoErr |-> FALSE]

\* return with err and clientErr set: the deferred function runs next
Return(l, err, clientErr) ==
    [l EXCEPT !.err = err, !.clientErr = clientErr, !.pc = "defer"]

\* pktHandler.handle up to the call of handleLogin; pkt is what
\* ReadPacketExpect(conn, true, 0x02, 0xfe) returns.
handle(l, pkt) ==
    IF pkt.type = "error"
    THEN [Return(l, "read", clientErrLoginGeneral) EXCEPT !.protoErr = TRUE]
    ELSE IF pkt.type = "Handshake"
    THEN [l EXCEPT !.username = pkt.username, !.pc = "handleLogin"]
    ELSE IF pkt.type = "ServerListPing"
    THEN Return(l, loginErrorServerList, ServerQueryAnswer)
    ELSE Return(l, loginErrorConnType, Nil)

handleLogin_noMaintenance(l, has, written) ==
    IF ~validPlayerUsername(l.username)
    THEN Return(l, clientErrUsername, clientErrUsername)
    ELSE IF ~has
    THEN Return([l EXCEPT !.passed = <<"username", "maintenance">>],
                "no login permission", clientErrLoginDenied)
    ELSE IF ~written
    THEN Return([l EXCEPT !.passed = <<"username", "maintenance", "permission">>,
                          !.has = TRUE],
                "write", clientErrHandshake)
    ELSE [l EXCEPT !.passed = <<"username", "maintenance", "permission", "handshake">>,
                   !.has = TRUE,
                   !.sent = Append(@, PacketHandshake),
                   !.pc = "readLogin"]

\* pktHandler.handleLogin up to the Handshake reply; has is what the
\* permissions say, written whether WritePacket succeeded.
handleLogin(l, has, written) ==
    IF ~validPlayerUsername(l.username)
    THEN Return(l, clientErrUsername, clientErrUsername)
    ELSE IF l.maintenanceMsg # ""
    THEN Return([l EXCEPT !.passed = <<"username">>],
                loginErrorMaintenance, l.maintenanceMsg)
    ELSE IF ~has
    THEN Return([l EXCEPT !.passed = <<"username", "maintenance">>],
                "no login permission", clientErrLoginDenied)
    ELSE IF ~written
    THEN Return([l EXCEPT !.passed = <<"username", "maintenance", "permission">>,
                          !.has = TRUE],
                "write", clientErrHandshake)
    ELSE [l EXCEPT !.passed = <<"username", "maintenance", "permission", "handshake">>,
                   !.has = TRUE,
                   !.sent = Append(@, PacketHandshake),
                   !.pc = "readLogin"]

\* handleLogin: ReadPacketExpect(conn, true, 0x01)
handleLoginRead(l, read) ==
    IF ~read
    THEN [Return(l, "read", clientErrLoginGeneral) EXCEPT !.protoErr = TRUE]
    ELSE [l EXCEPT !.passed = Append(@, "login"), !.pc = "authenticate"]

\* handleLogin: authserver.Authenticate(sessionId, username)
handleLoginAuthenticate(l, authenticated, authErr) ==
    LET l1 == [l EXCEPT !.authenticated = authenticated, !.authErr = authErr]
    IN  IF ~authenticated \/ authErr
        THEN Return(l1, "authentication", clientErrAuthFailed)
        ELSE [l1 EXCEPT !.passed = Append(@, "auth"), !.pc = "player"]

\* handleLogin from NewEntity to its end; playerData is what the world store
\* has for the user: "error", "nil", "bad" (it cannot be parsed) or "good".
handleLoginPlayer(l, playerData) ==
    LET l1 == [l EXCEPT !.entities = @ + 1]
    IN  IF playerData \in {"error", "bad"}
        THEN Return(l1, "player data", clientErrUserData)
        ELSE \* game.playerConnect <- player; player.Run()
             Return([l1 EXCEPT !.connected = TRUE], Nil, Nil)

\* The deferred function of pktHandler.handle
handleDeferred(l) ==
    IF l.err # Nil
    THEN [l EXCEPT !.clientErr = IF l.clientErr = Nil THEN clientErrGeneral ELSE @,
                   !.sent = Append(@, PacketDisconnect(IF l.clientErr = Nil
                                                       THEN clientErrGeneral
                                                       ELSE l.clientErr)),
                   !.closed = TRUE,
                   !.pc = "done"]
    ELSE [l EXCEPT !.pc = "done"]

FirstPackets ==
    {[type |-> "error"], [type |-> "ServerListPing"]}
        \cup {[type |-> "Handshake", username |-> u] : u \in Usernames}

LoginStep(l) ==
    /\ login' = l
    /\ UNCHANGED <<codecIn, codecOut, game, workers, coordIn, coordOut, decoded, loaded>>
    /\ UNCHANGED <<subsVars, sessVars, worldVars, itemVars, moveVars>>

LoginHandle ==
    /\ login.pc = "handle"
    /\ \E pkt \in FirstPackets : LoginStep(handle(login, pkt))

LoginHandleLogin ==
    /\ login.pc = "handleLogin"
    /\ \E has \in BOOLEAN, written \in BOOLEAN : LoginStep(handleLogin(login, has, written))

LoginRead ==
    /\ login.pc = "readLogin"
    /\ \E read \in BOOLEAN : LoginStep(handleLoginRead(login, read))

LoginAuthenticate ==
    /\ login.pc = "authenticate"
    /\ \E authenticated \in BOOLEAN, authErr \in BOOLEAN :
          LoginStep(handleLoginAuthenticate(login, authenticated, authErr))

LoginPlayer ==
    /\ login.pc = "player"
    /\ \E playerData \in {"error", "nil", "bad", "good"} :
          LoginStep(handleLoginPlayer(login, playerData))

LoginDeferred ==
    /\ login.pc = "defer"
    /\ LoginStep(handleDeferred(login))

InitLogin ==
    /\ SessInit
    /\ playerPingNoCheck = FALSE
    /\ position = XZ(0, 0)
    /\ SubsBlank
    /\ chunks = [loc \in ChunkLocs |-> NewChunk]
    /\ shardQueue = [s \in ShardLocs |-> << >>]
    /\ shardTicks = [s \in ShardLocs |-> 0]
    /\ entityMgr = {}
    /\ entPos = [e \in EntityIds |-> [chunkLoc |-> Origin, alive |-> TRUE]]
    /\ tx = NoOut
    /\ unsubCalls = NoCalls
    /\ lastOp = Op("none", Origin)
    /\ lastBatch = << >>
    /\ ItemsBlank
    /\ SquareBlank
    /\ login \in {NewLogin(m) : m \in MaintenanceMsgs}
    /\ codecIn = [fn |-> "none"]
    /\ codecOut = [done |-> FALSE]
    /\ GameBlank
    /\ CoordBlank
    /\ RecipeBlank

NextLogin ==
    \/ LoginHandle
    \/ LoginHandleLogin
    \/ LoginRead
    \/ LoginAuthenticate
    \/ LoginPlayer
    \/ LoginDeferred

SpecLogin == InitLogin /\ [][NextLogin]_vars

----------------------------------------------------------------------------
(* The packet codec: PacketSerializer (specification SpecCodec).  A packet *)
(* on the wire is a sequence of bytes; a string is a sequence of code      *)
(* points.                                                                 *)

maxUcs2Char == 65535
ucs2ReplChar == 65533
\* len(dump), the buffer for what follows the chunk data
DumpSize == 4096
\* The id of PacketEntityMetadata
PacketIdEntityMetadata == 40
\* The most entries of a metadata table that is encoded
MaxTable == 2

ErrorLengthNegative == "length was negative"
ErrorStrTooLong == "string was too long"
ErrorBadPacketData == "packet data well-formed but contains out of range values"
ErrorUnknownPacketType == "unknown packet type"
ErrorUnexpectedPacketId == "unexpected packet id"
ErrEOF == "EOF"
ErrUnexpectedEOF == "unexpected EOF"
ErrPanic == "panic"

Take(b, n) == SubSeq(b, 1, n)
Drop(b, n) == SubSeq(b, n + 1, Len(b))

\* writeUint16(uint16(v)) and int16(readUint16())
Uint16Bytes(v) == <<(v % 65536) \div 256, v % 256>>
Int16Of(b) ==
    LET u == (b[1] * 256) + b[2]
    IN  IF u >= 32768 THEN u - 65536 ELSE u

\* writeUint32(uint32(v)) and int32(readUint32()) of a 32 bit value v
Int32Bytes(v) ==
    LET low == IF v < 0 THEN (v + 1073741824) + 1073741824 ELSE v
    IN  <<(low \div 16777216) + (IF v < 0 THEN 128 ELSE 0),
          (low \div 65536) % 256, (low \div 256) % 256, low % 256>>
Int32Of(b) ==
    LET low == ((b[1] % 128) * 16777216) + (b[2] * 65536) + (b[3] * 256) + b[4]
    IN  IF b[1] >= 128 THEN (low - 1073741824) - 1073741824 ELSE low

\* The string of count code points cp
String(cp, count) == [i \in 1 .. count |-> cp]

\* PacketSerializer.writeString16: the count of code points as a uint16,
\* then two bytes for every code point
writeString16(v) ==
    LET cp(i) == IF v[i] > maxUcs2Char THEN ucs2ReplChar ELSE v[i]
    IN  [err |-> Nil,
         bytes |-> Uint16Bytes(Len(v))
                     \o [i \in 1 .. (2 * Len(v)) |->
                            IF i % 2 = 1
                            THEN cp((i + 1) \div 2) \div 256
                            ELSE cp(i \div 2) % 256]]

\* utf8.EncodeRune followed by string(): a surrogate half becomes U+FFFD
EncodeRune(cp) == IF cp >= 55296 /\ cp <= 57343 THEN ucs2ReplChar ELSE cp

\* PacketSerializer.readString16
readString16(b) ==
    IF Len(b) < 2
    THEN [err |-> IF b = << >> THEN ErrEOF ELSE ErrUnexpectedEOF, v |-> << >>, rest |-> << >>]
    ELSE LET length == Int16Of(b)
         IN  IF length < 0
             THEN [err |-> ErrorLengthNegative, v |-> << >>, rest |-> Drop(b, 2)]
             ELSE IF Len(b) < 2 + (2 * length)
             THEN [err |-> ErrUnexpectedEOF, v |-> << >>, rest |-> << >>]
             ELSE [err |-> Nil,
                   v |-> [i \in 1 .. length |->
                             EncodeRune((b[(2 * i) + 1] * 256) + b[(2 * i) + 2])],
                   rest |-> Drop(b, 2 + (2 * length))]

EntityMetadata(field1, field2, field3) ==
    [Field1 |-> field1, Field2 |-> field2, Field3 |-> field3]

\* The bytes of Field3 for the type tag Field1
Field3Bytes(item) ==
    CASE item.Field1 = 0 -> [err |-> Nil, bytes |-> <<item.Field3>>]
      [] item.Field1 = 1 -> [err |-> Nil, bytes |-> Uint16Bytes(item.Field3)]
      [] item.Field1 = 2 -> [err |-> Nil, bytes |-> Int32Bytes(item.Field3)]
      [] item.Field1 = 3 -> [err |-> Nil, bytes |-> Int32Bytes(item.Field3)]
      [] item.Field1 = 4 -> writeString16(item.Field3)
      [] item.Field1 = 5 -> \* the assertion to the local type position fails
                            [err |-> ErrPanic, bytes |-> << >>]
      [] OTHER -> [err |-> Nil, bytes |-> << >>]

RECURSIVE writeEntityMetadataField(_, _)
writeEntityMetadataField(out, data) ==
    IF data = << >>
    THEN [err |-> Nil, bytes |-> Append(out, 127)]
    ELSE LET item == Head(data)
             entryType == ((item.Field1 % 8) * 32) + (item.Field2 % 32)
             field3 == Field3Bytes(item)
         IN  IF field3.err # Nil
             THEN [err |-> field3.err, bytes |-> Append(out, entryType)]
             ELSE writeEntityMetadataField(Append(out, entryType) \o field3.bytes,
                                           Tail(data))

\* Field3 read for the type tag; prev is what the variable field3 holds
readField3(tag, b, prev) ==
    LET short(n) == [err |-> IF b = << >> THEN ErrEOF ELSE ErrUnexpectedEOF,
                     v |-> 0, rest |-> << >>]
    IN  CASE tag = 0 -> IF Len(b) < 1 THEN short(1)
                        ELSE [err |-> Nil, v |-> b[1], rest |-> Drop(b, 1)]
          [] tag = 1 -> IF Len(b) < 2 THEN short(2)
                        ELSE [err |-> Nil, v |-> Int16Of(b), rest |-> Drop(b, 2)]
          [] tag \in {2, 3} -> IF Len(b) < 4 THEN short(4)
                               ELSE [err |-> Nil, v |-> Int32Of(b), rest |-> Drop(b, 4)]
          [] tag = 4 -> readString16(b)
          [] tag = 5 -> IF Len(b) < 5 THEN short(5)
                        ELSE [err |-> Nil,
                              v |-> [X |-> Int16Of(b), Y |-> b[3],
                                     Z |-> Int16Of(Drop(b, 3))],
                              rest |-> Drop(b, 5)]
          [] OTHER -> [err |-> Nil, v |-> prev, rest |-> b]

\* readEntityMetadataField: the type tag of the switch is a variable of the
\* switch alone, so that the entry gets the function's field1, which is 0.
RECURSIVE readEntityMetadataField(_, _, _)
readEntityMetadataField(data, b, prev) ==
    IF b = << >>
    THEN [err |-> ErrEOF, v |-> data, rest |-> << >>]
    ELSE IF b[1] = 127
    THEN [err |-> Nil, v |-> data, rest |-> Drop(b, 1)]
    ELSE LET field2 == b[1] % 32
             field3 == readField3(b[1] \div 32, Drop(b, 1), prev)
             data1 == Append(data, EntityMetadata(0, field2, field3.v))
         IN  IF field3.err # Nil
             THEN [err |-> field3.err, v |-> data1, rest |-> field3.rest]
             ELSE readEntityMetadataField(data1, field3.rest, field3.v)

\* The registry of the packet types, for the one type of the model
pktIdInfo(id) ==
    IF id = PacketIdEntityMetadata
    THEN [validPacket |-> TRUE, clientToServer |-> FALSE, serverToClient |-> TRUE]
    ELSE [validPacket |-> FALSE, clientToServer |-> FALSE, serverToClient |-> FALSE]

PacketEntityMetadata(entityId, metadata) ==
    [EntityId |-> entityId, Metadata |-> metadata]

\* PacketSerializer.WritePacket with writeData of the two fields
WritePacket(packet) ==
    LET metadata == writeEntityMetadataField(<< >>, packet.Metadata)
    IN  [err |-> metadata.err,
         bytes |-> <<PacketIdEntityMetadata>> \o Int32Bytes(packet.EntityId)
                      \o metadata.bytes]

\* PacketSerializer.ReadPacket with readPacketCommon and readData
ReadPacket(b, fromClient) ==
    IF b = << >>
    THEN [err |-> ErrEOF]
    ELSE IF ~pktIdInfo(b[1]).validPacket
    THEN [err |-> ErrorUnknownPacketType]
    ELSE IF ~(IF fromClient THEN pktIdInfo(b[1]).clientToServer
                            ELSE pktIdInfo(b[1]).serverToClient)
    THEN [err |-> ErrorUnexpectedPacketId]
    ELSE IF Len(b) < 5
    THEN [err |-> ErrUnexpectedEOF]
    ELSE LET metadata == readEntityMetadataField(<< >>, Drop(b, 5), 0)
         IN  IF metadata.err # Nil
             THEN [err |-> metadata.err]
             ELSE [err |-> Nil,
                   packet |-> PacketEntityMetadata(Int32Of(Drop(b, 1)), metadata.v)]

\* io.ReadFull of n bytes from a stream that has avail bytes left
ReadFull(avail, n) ==
    IF avail >= n THEN [n |-> n, err |-> Nil]
    ELSE IF avail = 0 THEN [n |-> 0, err |-> ErrEOF]
    ELSE [n |-> avail, err |-> ErrUnexpectedEOF]

\* ChunkData.MinecraftUnmarshal of a blob with the size bytes, the four
\* length bytes and a zlib stream that holds blob.stream bytes; the arrays
\* are given by their lengths
MinecraftUnmarshal(blob) ==
    LET length == Int32Of(blob.length)
        numBlocks == (blob.Size.X + 1) * (blob.Size.Y + 1) * (blob.Size.Z + 1)
        numNibbles == numBlocks \div 2
        expectedNumDataBytes == numBlocks + (3 * numNibbles)
        data == ReadFull(blob.stream, expectedNumDataBytes)
        extra == ReadFull(blob.stream - expectedNumDataBytes, DumpSize)
    IN  IF length < 0 THEN [err |-> ErrorLengthNegative]
        ELSE IF data.err # Nil THEN [err |-> data.err]
        ELSE IF extra.err = ErrEOF
        THEN [err |-> Nil, Blocks |-> numBlocks, BlockData |-> numNibbles,
              BlockLight |-> numNibbles, SkyLight |-> numNibbles]
        ELSE IF extra.err = Nil THEN [err |-> ErrorBadPacketData]
        ELSE [err |-> extra.err]

\* The inputs of the codec
StringInputs ==
    {[fn |-> "writeString16", cp |-> cp, count |-> count] :
        cp \in {97, 233, 128512}, count \in {0, 1, 2, 3}}
        \cup {[fn |-> "writeString16", cp |-> 97, count |-> count] :
                 count \in {32767, 32768}}

ExpectedBytes(size) ==
    LET numBlocks == (size.X + 1) * (size.Y + 1) * (size.Z + 1)
    IN  numBlocks + (3 * (numBlocks \div 2))

ChunkSizes == [X : 0 .. 1, Y : 0 .. 1, Z : 0 .. 2]
ExtraBytes == {-1, 0, 1, 2, DumpSize - 1, DumpSize, DumpSize + 1}
ChunkInputs ==
    {[fn |-> "ChunkData", Size |-> size, length |-> length,
      stream |-> ExpectedBytes(size) + extra, extra |-> extra] :
        size \in ChunkSizes, extra \in ExtraBytes,
        length \in {<<0, 0, 0, 64>>, <<255, 255, 255, 255>>}}

MetadataEntries ==
    {EntityMetadata(0, 0, 5), EntityMetadata(0, 16, 255),
     EntityMetadata(1, 1, 300), EntityMetadata(1, 1, -2),
     EntityMetadata(2, 2, 70000), EntityMetadata(2, 8, -1),
     EntityMetadata(3, 3, 1065353216),
     EntityMetadata(4, 4, <<97, 98>>), EntityMetadata(4, 5, << >>),
     EntityMetadata(5, 6, [X |-> 1, Y |-> 2, Z |-> -3])}
MetadataTables ==
    UNION {[1 .. n -> MetadataEntries] : n \in 0 .. MaxTable}
PacketInputs ==
    {[fn |-> "Packet", packet |-> PacketEntityMetadata(entityId, metadata),
      fromClient |-> fromClient] :
        entityId \in {5, -7}, metadata \in MetadataTables, fromClient \in {FALSE}}

CodecStep(out) ==
    /\ ~codecOut.done
    /\ codecOut' = out
    /\ UNCHANGED <<login, codecIn, game, workers, coordIn, coordOut, decoded, loaded>>
    /\ UNCHANGED <<subsVars, sessVars, worldVars, itemVars, moveVars>>

\* Encode the string of the input; of the bytes the length prefix, as
\* readString16 takes it, and the count of the bytes after it are kept.
CodecWriteString16 ==
    /\ codecIn.fn = "writeString16"
    /\ LET out == writeString16(String(codecIn.cp, codecIn.count))
       IN  CodecStep([done |-> TRUE, err |-> out.err,
                      prefix |-> IF out.err = Nil THEN Int16Of(out.bytes) ELSE 0,
                      units |-> IF out.err = Nil THEN (Len(out.bytes) - 2) \div 2 ELSE 0])

\* Encode the packet of the input and decode the bytes.
CodecRoundTrip ==
    /\ codecIn.fn = "Packet"
    /\ LET out == WritePacket(codecIn.packet)
       IN  CodecStep([done |-> TRUE, encodeErr |-> out.err,
                      decoded |-> IF out.err = Nil
                                  THEN ReadPacket(out.bytes, codecIn.fromClient)
                                  ELSE [err |-> Nil]])

\* Decode the chunk data of the input.
CodecChunkData ==
    /\ codecIn.fn = "ChunkData"
    /\ CodecStep([done |-> TRUE] @@ MinecraftUnmarshal(codecIn))

InitCodec ==
    /\ SessInit
    /\ playerPingNoCheck = FALSE
    /\ position = XZ(0, 0)
    /\ SubsBlank
    /\ chunks = [loc \in ChunkLocs |-> NewChunk]
    /\ shardQueue = [s \in ShardLocs |-> << >>]
    /\ shardTicks = [s \in ShardLocs |-> 0]
    /\ entityMgr = {}
    /\ entPos = [e \in EntityIds |-> [chunkLoc |-> Origin, alive |-> TRUE]]
    /\ tx = NoOut
    /\ unsubCalls = NoCalls
    /\ lastOp = Op("none", Origin)
    /\ lastBatch = << >>
    /\ ItemsBlank
    /\ SquareBlank
    /\ login = [pc |-> "none"]
    /\ codecIn \in StringInputs \cup ChunkInputs \cup PacketInputs
    /\ codecOut = [done |-> FALSE]
    /\ GameBlank
    /\ CoordBlank
    /\ RecipeBlank

NextCodec ==
    \/ CodecWriteString16
    \/ CodecRoundTrip
    \/ CodecChunkData

SpecCodec == InitCodec /\ [][NextCodec]_vars

----------------------------------------------------------------------------
(* Chunk subscription claims, checked under SpecSubs.                      *)

ChunkSquare(center, radius) ==
    {XZ(x, z) : x \in center.X - radius .. center.X + radius,
                z \in center.Z - radius .. center.Z + radius}

\* C1: after chunkSubscriptions.Init and any sequence of accepted moves, the
\* chunks subscribed to and not since unsubscribed from are exactly the
\* (2*ChunkRadius+1) x (2*ChunkRadius+1) square centred on the player's
\* current chunk location.
C1_SubscribedSquare ==
    subsInit =>
        /\ curChunkLoc = ToChunkXz(position)
        /\ subscribed = ChunkSquare(curChunkLoc, ChunkRadius)
        /\ Cardinality(subscribed) = (2 * ChunkRadius + 1) * (2 * ChunkRadius + 1)

\* A move has subscribed to new chunks, unsubscribed from old ones and
\* closed the connection to a shard that was left behind.
C1_Witness ==
    /\ subsInit
    /\ spawnComplete
    /\ Cardinality(openConns) < nextConn
    /\ subscribed = ChunkSquare(ToChunkXz(position), ChunkRadius)

\* C2: after any sequence of moves the hosting shard client curShard is the
\* open client of the shard that contains the player's current chunk.
C2_HostingShard ==
    subsInit =>
        /\ ChunkToShardXz(curChunkLoc) \in DOMAIN shards
        /\ curShard = shards[ChunkToShardXz(curChunkLoc)].shard
        /\ curShard \in openConns

----------------------------------------------------------------------------
(* Session claims, checked under Spec and FairSpec.                        *)

\* The positions of the main task before its deferred calls run.
LoopPcs == {"start", "pingTx", "loop", "handlerTx", "pingBcast"}

\* The five steps of the deferred shutdown function of mainLoop.
ShutdownSteps == <<"txNil", "connClose", "onDisconnect", "timerStop", "offline">>

IsPrefix(s, t) == Len(s) <= Len(t) /\ s = SubSeq(t, 1, Len(s))

Logged(step) == \E i \in 1 .. Len(shutdownLog) : shutdownLog[i] = step

C4_TimeoutTerminates ==
    timedOut ~> (mainPc \notin LoopPcs /\ ~registered)

\* The session has terminated: the main task has left its loop and the tx
\* task has returned.
Terminated == mainPc \notin LoopPcs /\ txPc \in {"done", "failed"}

\* C5: once the session has terminated, a chunk or the game that transmits
\* a packet to the player is not blocked by it.
C5_TransmitNeverBlocks ==
    Terminated =>
        /\ (gamePc = "multicast" => ENABLED GameTransmit)
        /\ (chunkPc = "transmit" => ENABLED ChunkTransmit)

\* C6: Player.Stop can be taken in every state, before, during and after
\* the shutdown, whatever the number of earlier calls; the stop channel
\* never holds more than its one slot; and the main task, having left its
\* loop, never returns to it, so that the shutdown runs at most once.
C6_StopIdempotent ==
    /\ [](stopPlayer \in 0 .. StopPlayerCap /\ ENABLED ExternalStop)
    /\ [][mainPc \notin LoopPcs => mainPc' \notin LoopPcs]_vars
    /\ [][Len(shutdownLog') >= Len(shutdownLog)]_vars

\* Stop was called again after the main task had taken the stop signal, and
\* the main task has finished its shutdown.
C6_Witness ==
    /\ mainPc = "done"
    /\ stopPlayer = StopPlayerCap

\* A task has reported an error that the main task has not received.
ErrorPending ==
    \/ recvErr # << >>
    \/ \E i \in 1 .. Len(txErrChan) : txErrChan[i] = "err"

\* C7: every error reported by the rx task or the tx task is received by
\* the main task and the session's shutdown then runs to its end.
C7_ErrorLeadsToShutdown ==
    ErrorPending ~> (~ErrorPending /\ mainPc = "done")

IsKeepAlive(pkt) == pkt.type = "KeepAlive" /\ pkt.id # 0

\* C8: in strict mode, while a ping is outstanding, handling a keep-alive
\* whose non-zero id differs from the outstanding id requests the stop of
\* the player and leaves the keep-alive state (running, id, timer) as it is.
C8_StrictMismatchStops ==
    [][\A latency \in Latencies :
          (/\ MainRecvPktAt(latency)
           /\ ~playerPingNoCheck
           /\ ping.running
           /\ IsKeepAlive(rxPkt)
           /\ rxPkt.id # ping.id)
          => (/\ stopPlayer' = StopPlayerCap
              /\ ping' = ping
              /\ mainPc' = "loop"
              /\ workQueue' = workQueue)]_vars

\* The main task has just handled a mismatching keep-alive in strict mode.
C8_Witness ==
    /\ ~playerPingNoCheck
    /\ IsKeepAlive(lastPkt)
    /\ ping.running
    /\ lastPkt.id # ping.id
    /\ stopPlayer = StopPlayerCap
    /\ mainPc = "loop"

\* C9: while a ping is outstanding, handling a keep-alive with the
\* outstanding id broadcasts a player-list item that carries the measured
\* latency in milliseconds, and leaves the state machine Idle with the timer
\* armed with PingInterval.  It is stated for the round trips from 0 s to
\* below PingTimeout, those that pass the time shift test of pingReceived.
C9_MatchingReply ==
    /\ [][\A latency \in Latencies :
            (/\ MainRecvPktAt(latency)
             /\ ping.running
             /\ IsKeepAlive(rxPkt)
             /\ rxPkt.id = ping.id
             /\ latency >= 0 /\ latency < PingTimeout)
            => (/\ mainPc' = "pingBcast"
                /\ pktPing' = latency * 1000)]_vars
    /\ [][MainPingBroadcast =>
            /\ ping' = PingIdle
            /\ workQueue' = Append(workQueue, PlayerListItem(TRUE, pktPing))]_vars

\* C10: in relaxed mode, handling a keep-alive whose non-zero id differs
\* from the outstanding id never requests the stop of the player, and while
\* a ping is outstanding the step is the one that a keep-alive with the
\* outstanding id takes.
C10_RelaxedMismatch ==
    [][\A latency \in Latencies :
          (/\ MainRecvPktAt(latency)
           /\ playerPingNoCheck
           /\ IsKeepAlive(rxPkt)
           /\ rxPkt.id # ping.id)
          => (/\ stopPlayer' = stopPlayer
              /\ IF ping.running
                 THEN pingReceived(ping.id, latency)
                 ELSE ping' = ping /\ mainPc' = "loop")]_vars

\* The main task has just accepted a mismatching keep-alive in relaxed mode
\* and is about to broadcast its latency.
C10_Witness ==
    /\ playerPingNoCheck
    /\ IsKeepAlive(lastPkt)
    /\ ping.running
    /\ lastPkt.id # ping.id
    /\ mainPc = "pingBcast"
    /\ stopPlayer = 0

\* C14: squareDifference(A, B, r) returns every chunk that lies inside the
\* r-square around A and outside the r-square around B exactly once, and no
\* other chunk; in particular it returns no chunk common to both squares.
C14_SquareDifference ==
    sdOut.done =>
        /\ NoDuplicates(sdOut.result)
        /\ RangeOf(sdOut.result) =
              ChunkSquare(sdArgs.centerA, sdArgs.radius)
                  \ ChunkSquare(sdArgs.centerB, sdArgs.radius)
        /\ RangeOf(sdOut.result)
              \cap (ChunkSquare(sdArgs.centerA, sdArgs.radius)
                       \cap ChunkSquare(sdArgs.centerB, sdArgs.radius)) = {}

\* squareDifference has run for two squares that overlap in part, and has
\* returned some chunks of the first one.
C14_Witness ==
    /\ sdOut.done
    /\ sdArgs.radius > 0
    /\ sdOut.result # << >>
    /\ ChunkSquare(sdArgs.centerA, sdArgs.radius)
          \cap ChunkSquare(sdArgs.centerB, sdArgs.radius) # {}

Solid(blockType) == IF blockType \in DOMAIN Blocks THEN Blocks[blockType].Solid ELSE TRUE

\* C18: after setBlock(p, id, data) the block-id and block-data arrays hold
\* id and data at p's index, no tile entity is left at that index, the chunk
\* is marked dirty, and a BlockQuery(p) returns (solid(id), withinChunk).
C18_SetBlock ==
    lastOp.op = "setBlock" =>
        LET chunk == chunks[lastOp.loc]
            index == lastOp.subLoc
        IN  /\ chunk.blocks[index] = lastOp.blockType
            /\ BlockData(chunk.blockData, index) = lastOp.blockData
            /\ index \notin chunk.tileEntities
            /\ chunk.storeDirty
            /\ BlockQuery(chunks, lastOp.loc, lastOp.loc, index)
                  = [isSolid |-> Solid(lastOp.blockType), isWithinChunk |-> TRUE]

\* A cell that held a tile entity and whose neighbour in the same data byte
\* holds data has been set to a block that is not solid.
C18_Witness ==
    /\ lastOp.op = "setBlock"
    /\ lastOp.blockData # 0
    /\ ~Solid(lastOp.blockType)
    /\ \E i \in BlockIndexes :
          /\ i # lastOp.subLoc
          /\ BlockData(chunks[lastOp.loc].blockData, i) # 0
          /\ i \in chunks[lastOp.loc].tileEntities

\* C19: a cached map-chunk packet encodes the current block arrays of its
\* chunk, and a player who subscribes receives the map-chunk packet of the
\* block arrays as they are then.
C19_CachedPacket ==
    /\ [](\A loc \in ChunkLocs :
            chunks[loc].cachedPacket # NilPacket =>
                chunks[loc].cachedPacket
                    = PacketMapChunk(chunks[loc].blocks, chunks[loc].blockData))
    /\ [][(/\ lastOp'.op = "reqSubscribeChunk"
           /\ lastOp'.entityId \notin chunks[lastOp'.loc].subscribers)
          => LET loc == lastOp'.loc
             IN  \E i \in DOMAIN tx'[lastOp'.entityId] :
                    tx'[lastOp'.entityId][i]
                        = PacketMapChunk(chunks[loc].blocks, chunks[loc].blockData)]_vars

\* The last player has subscribed to a chunk whose blocks were set, and has
\* received packets from it.
C19_Witness ==
    /\ lastOp.op = "reqSubscribeChunk"
    /\ Cardinality(chunks[lastOp.loc].subscribers) = MaxPlayers
    /\ tx[lastOp.entityId] # << >>
    /\ chunks[lastOp.loc].cachedPacket # NilPacket
    /\ \E i \in BlockIndexes : chunks[lastOp.loc].blocks[i] # BlockIdAir

\* The chunks that have the session's player among their subscribers.
SubscribersOf == {loc \in ChunkLocs : 1 \in chunks[loc].subscribers}

\* C13: once the shards have processed every subscribe and unsubscribe
\* request of the player, the player's id is among the subscribers of every
\* chunk of its current subscription square and of no other chunk.
C13_SubscribersSquare ==
    (subsInit /\ Pending = {}) => SubscribersOf = ChunkSquare(curChunkLoc, ChunkRadius)

\* The player has moved to another chunk, so that the latest subscriptions
\* are not those of the start, and the shards have processed all of its
\* requests.
C13_Witness ==
    /\ subsInit
    /\ Pending = {}
    /\ lastBatch # orderedChunkSquare(curChunkLoc, ChunkRadius)
    /\ SubscribersOf # {}

\* The distance between two chunks in rings of chunks: the radius of the
\* smallest square around one that holds the other.
RingDistance(a, b) ==
    LET dx == IF a.X >= b.X THEN a.X - b.X ELSE b.X - a.X
        dz == IF a.Z >= b.Z THEN a.Z - b.Z ELSE b.Z - a.Z
    IN  IF dx >= dz THEN dx ELSE dz

\* The square of the distance between the centres of two chunks, in chunks.
SquaredDistance(a, b) == (a.X - b.X) * (a.X - b.X) + (a.Z - b.Z) * (a.Z - b.Z)

OwnersOf(e) == {loc \in ChunkLocs : e \in chunks[loc].entities}

\* C11: every live non-player entity is in the entity set of exactly one
\* chunk, also while it migrates between chunks.
C11_OneOwner ==
    \A e \in entityMgr : Cardinality(OwnersOf(e)) = 1

\* C12: an entity that a tick has taken out of its chunk because it moved
\* over another chunk is in the entity set of that chunk before the tick is
\* over: no transfer is still queued when its sender has begun a later tick.
C12_TransferWithinTick ==
    \A s \in ShardLocs : \A i \in DOMAIN shardQueue[s] :
        shardQueue[s][i].op = "ReqTransferEntity"
            => shardQueue[s][i].tick = shardTicks[shardQueue[s][i].from]

----------------------------------------------------------------------------
(* Items, checked under SpecItems.                                         *)

\* C21: reqTakeItem gives the item to the player, multicasts the item-collect
\* packet and destroys the entity only if the entity is an Item that overlaps
\* the player's bounding box; otherwise the entity stays in the chunk and
\* nothing is given or sent.
C21_TakeItem ==
    [][(lastOp'.op = "reqTakeItem" /\ pendingTake' # pendingTake)
       => LET e == lastOp'.entityId
              p == lastOp'.player
              loc == lastOp'.loc
          IN  IF /\ e \in chunks[loc].entities
                 /\ itemData[e].isItem
                 /\ OverlapsItem(playerPos[p], itemData[e].pos)
              THEN /\ e \notin chunks'[loc].entities
                   /\ \E i \in DOMAIN tx'[p] : tx'[p][i].type = "GiveItemAtPosition"
              ELSE /\ chunks'[loc].entities = chunks[loc].entities
                   /\ tx' = NoOut]_vars

\* C22: when a shard begins a tick, every subscribed player whose bounding
\* box an Item of the chunk overlaps has been offered that Item exactly once
\* since the tick before.
C22_OneOfferPerTick ==
    [][(lastOp'.op = "tick" /\ shardTicks' # shardTicks)
       => \A loc \in ChunksOfShard(lastOp'.loc), p \in PlayerIds, e \in EntityIds :
             (/\ p \in chunks[loc].subscribers
              /\ p \in chunks[loc].playersData
              /\ e \in items(chunks[loc], itemData)
              /\ OverlapsItem(playerPos[p], itemData[e].pos))
             => offers[p][e] = 1]_vars

----------------------------------------------------------------------------
(* The player's packets, checked under SpecPackets.                        *)

\* C23: once the spawn has completed, a position packet that is more than
\* MaxMoveDistance blocks from the player's position changes neither the
\* position, the height, the current chunk nor the subscribed chunks, and no
\* position goes to a shard.
C23_FarMoveDiscarded ==
    [][(lastHandled'.pkt = "move" /\ lastHandled'.far /\ spawnComplete)
       => /\ position' = position
          /\ height' = height
          /\ curChunkLoc' = curChunkLoc
          /\ subscribed' = subscribed
          /\ ~lastHandled'.sentPos]_vars

\* A position packet from too far away has been handled after the spawn.
C23_Witness ==
    /\ spawnComplete
    /\ lastHandled.pkt = "move"
    /\ lastHandled.far
    /\ height # StanceNormal

\* C24: a chat message that is no command is transmitted once to the sender
\* as "<name> message", and goes once, without the sender, to the subscribers
\* of the sender's current chunk through the open connection to the shard of
\* that chunk.
C24_ChatThroughChunkShard ==
    lastHandled.pkt = "chat"
        => /\ \E m \in ChatMessages : lastHandled.data = ChatText(PlayerName, m)
           /\ lastHandled.toSelf = <<lastHandled.data>>
           /\ lastHandled.exclude = 1
           /\ lastHandled.chunkLoc = curChunkLoc
           /\ lastHandled.conn = ShardOf(SubState, ChunkToShardXz(curChunkLoc))
           /\ lastHandled.conn \in openConns

----------------------------------------------------------------------------
(* The game's registry of players, checked under FairSpec.                 *)

\* C25: when the session of a registered player ends, the game removes the
\* player from its registry and writes the player's data to the world store,
\* once.
C25_DisconnectWritesOnce ==
    (registered /\ mainPc \notin LoopPcs) ~> (~registered /\ playerWrites = 1)

----------------------------------------------------------------------------
(* The login, checked under SpecLogin.                                     *)

LoginChecks == <<"username", "maintenance", "permission", "handshake", "login", "auth">>

\* The reasons that a client may see.
UserSafeReasons ==
    {clientErrGeneral, clientErrUsername, clientErrLoginDenied, clientErrHandshake,
     clientErrLoginGeneral, clientErrAuthFailed, clientErrUserData, ServerQueryAnswer}
        \cup (MaintenanceMsgs \ {""})

\* C26: a player goes to the game's playerConnect channel only after the
\* username has matched, maintenance was off, the login permission was
\* there, the Login packet has followed the Handshake reply and Authenticate
\* has returned true without error, in this order; a handler that ends
\* without a player has closed the connection after a Disconnect packet with
\* a reason that a client may see.
C26_LoginGate ==
    /\ IsPrefix(login.passed, LoginChecks)
    /\ login.connected =>
          /\ login.passed = LoginChecks
          /\ validPlayerUsername(login.username)
          /\ login.maintenanceMsg = ""
          /\ login.has
          /\ login.authenticated /\ ~login.authErr
          /\ login.sent = <<PacketHandshake>>
          /\ ~login.closed
    /\ (login.pc = "done" /\ ~login.connected) =>
          /\ login.closed
          /\ login.sent # << >>
          /\ login.sent[Len(login.sent)].type = "Disconnect"
          /\ login.sent[Len(login.sent)].reason \in UserSafeReasons
          /\ \A i \in 1 .. (Len(login.sent) - 1) : login.sent[i].type # "Disconnect"

\* A player has passed all the checks and has been sent to the game.
C26_Witness ==
    /\ login.pc = "done"
    /\ login.connected
    /\ login.username = <<"Z", "-", "_", "9">>

\* C27: a connection that is ended because a packet of the client could not
\* be read has been sent a Disconnect packet with the reason "Server error."
C27_ProtocolErrorReason ==
    (login.pc = "done" /\ login.protoErr) =>
        /\ login.closed
        /\ login.sent # << >>
        /\ login.sent[Len(login.sent)] = PacketDisconnect(clientErrGeneral)

----------------------------------------------------------------------------
(* The packet codec, checked under SpecCodec.                              *)

\* C28: the bytes that WritePacket produces for a packet are decoded by
\* ReadPacket, in the packet's direction, to a packet equal to it; here for
\* PacketEntityMetadata with entries of every type tag.
C28_RoundTrip ==
    (codecIn.fn = "Packet" /\ codecOut.done) =>
        /\ codecOut.encodeErr = Nil
        /\ codecOut.decoded.err = Nil
        /\ codecOut.decoded.packet = codecIn.packet

\* C29: encoding a string of more than 32767 code points fails with
\* ErrorStrTooLong, and a length prefix that is written is the count of the
\* code points, neither wrapped nor negative.
C29_StringTooLong ==
    (codecIn.fn = "writeString16" /\ codecOut.done) =>
        /\ codecIn.count > 32767 => codecOut.err = ErrorStrTooLong
        /\ codecOut.err = Nil =>
              (codecOut.prefix = codecIn.count /\ codecOut.units = codecIn.count)

\* C30: decoding chunk data whose zlib stream holds one or more bytes after
\* the cells + 3 * (cells / 2) bytes of the arrays fails with
\* ErrorBadPacketData.
C30_TrailingBytes ==
    (codecIn.fn = "ChunkData" /\ codecOut.done
        /\ Int32Of(codecIn.length) >= 0 /\ codecIn.extra >= 1) =>
        codecOut.err = ErrorBadPacketData

\* C38: handling a keep-alive with a non-zero id while no ping is
\* outstanding requests the stop of the player in strict mode and does not
\* in relaxed mode; in both modes the keep-alive state (running, id, timer)
\* stays as it is and nothing goes to the game's queue.
C38_IdleKeepAlive ==
    [][\A latency \in Latencies :
          (/\ MainRecvPktAt(latency)
           /\ ~ping.running
           /\ IsKeepAlive(rxPkt))
          => (/\ stopPlayer' = IF playerPingNoCheck THEN stopPlayer ELSE StopPlayerCap
              /\ ping' = ping
              /\ pktPing' = pktPing
              /\ mainPc' = "loop"
              /\ workQueue' = workQueue
              /\ txQueue' = txQueue)]_vars

\* In strict mode the main task has just handled a keep-alive whose id no
\* ping ever has, so that it was not taken as a reply; no ping is
\* outstanding and the stop of the player is requested.
C38_Witness ==
    /\ ~playerPingNoCheck
    /\ lastPkt = Pkt("KeepAlive", MaxPingId + 1)
    /\ ~ping.running
    /\ ping.timer.state # "nil"
    /\ stopPlayer = StopPlayerCap
    /\ mainPc = "loop"

\* The tx task takes no more blobs from txQueue: it has returned, or it waits
\* to report on txErrChan, which is full and which the main task, having left
\* its select, does not receive from.
TxTakesNoMore ==
    \/ txPc \in {"done", "failed"}
    \/ /\ txPc \in {"reportNil", "reportErr"}
       /\ Len(txErrChan) = TxErrChanCap
       /\ mainPc \notin {"start", "loop"}

\* The game loop is blocked in TransmitPacket on the player's full txQueue.
GameBlocked == gamePc = "multicast" /\ Len(txQueue) = TxQueueCap

\* The main task is blocked on the disconnect channel, which the game loop
\* receives from in its select only, on the game's full work queue or on the
\* player's full txQueue.
MainBlocked ==
    \/ mainPc = "onDisconnect"
    \/ mainPc \in {"pingBcast", "offline"} /\ Len(workQueue) = WorkQueueCap
    \/ mainPc \in {"pingTx", "handlerTx", "txNil"} /\ Len(txQueue) = TxQueueCap

\* C32: in no reachable state do the game loop and the session wait on each
\* other forever, the game loop blocked on the player's full txQueue, which
\* the tx task no longer empties, and the player's main task blocked on the
\* disconnect channel, the work queue or its own txQueue.
C32_NoMutualWait ==
    ~(GameBlocked /\ TxTakesNoMore /\ MainBlocked)

\* C33: once the main task has left its select loop its shutdown runs to
\* the end: the nil sentinel is accepted by txQueue and the entity id is
\* delivered on the disconnect channel, whatever txQueue holds and whether
\* or not the tx task has returned after a write error.
C33_ShutdownCompletes ==
    (mainPc \notin LoopPcs) ~> (Logged("txNil") /\ Logged("onDisconnect"))

----------------------------------------------------------------------------
(* The shard map of the session, checked under SpecSubs.                   *)

\* C34: between the operations of the session every entry of the shard map
\* counts the subscribed chunks that lie in its shard and counts at least
\* one; the shards of the map are those that hold a subscribed chunk, and
\* the open shard clients are those of the map, a client being disconnected
\* and removed when its count reaches zero.
C34_ShardRefCounts ==
    /\ DOMAIN shards = {ChunkToShardXz(c) : c \in subscribed}
    /\ \A k \in DOMAIN shards :
          /\ shards[k].count = Cardinality({c \in subscribed : ChunkToShardXz(c) = k})
          /\ shards[k].count >= 1
          /\ shards[k].shard.loc = k
    /\ openConns = {shards[k].shard : k \in DOMAIN shards}

\* Moves have taken the count of a shard to zero, its client was
\* disconnected, and another shard holds several subscribed chunks.
C34_Witness ==
    /\ subsInit
    /\ Cardinality(openConns) < nextConn
    /\ \E k \in DOMAIN shards : shards[k].count > 1
    /\ \E k \in ShardLocs : k \notin DOMAIN shards


----------------------------------------------------------------------------
(* C35: the playerData of the player is in one chunk.                      *)

\* The chunks that hold the playerData of the session's player.
PlayerDataChunks == {loc \in DOMAIN chunks : 1 \in chunks[loc].playersData}

\* The places of the requests op(chunkLoc) in a list of requests.
PlacesOf(reqs, op, chunkLoc) ==
    {i \in 1 .. Len(reqs) : reqs[i] = Request(op, chunkLoc)}

\* The places of the playerData requests in a list of requests.
PlayerDataPlaces(reqs) ==
    {i \in 1 .. Len(reqs) : reqs[i].op \in {"ReqAddPlayerData", "ReqRemovePlayerData"}}

----------------------------------------------------------------------------
(* The game's registries of the connected players and the entity ids of    *)
(* the handshake workers (specification SpecGame).                         *)

\* The connections that are served at the same time.
MaxWorkers == 2
Workers == 1 .. MaxWorkers
\* The usernames of the clients; all of them are valid.
GameNames == {<<"a">>, <<"b">>}

\* A map with the entry key -> value set, and without the entry of key.
MapSet(map, key, value) == (key :> value) @@ map
MapDelete(map, key) == [k \in DOMAIN map \ {key} |-> map[k]]

\* player.NewPlayer(entityId, ..., username, ...)
NewPlayer(entityId, name) == [entityId |-> entityId, name |-> name]

\* A worker whose connection has passed the authentication as name.
NewWorker(name) == [pc |-> "player", name |-> name, entityId |-> 0]

\* Game.onPlayerConnect
Game_onPlayerConnect(g, newPlayer) ==
    [g EXCEPT !.players = MapSet(@, newPlayer.entityId, newPlayer),
              !.playerNames = MapSet(@, newPlayer.name, newPlayer)]

\* Game.onPlayerDisconnect, up to RemoveEntityById: the registries and the
\* entity manager afterwards.  oldPlayer is nil when the id is not in
\* game.players, and oldPlayer.Name() is then a fault.
Game_onPlayerDisconnect(g, mgr, entityId) ==
    IF entityId \notin DOMAIN g.players
    THEN [game |-> [g EXCEPT !.fault = TRUE], entityMgr |-> mgr]
    ELSE LET oldPlayer == g.players[entityId]
         IN  [game |-> [g EXCEPT !.players = MapDelete(@, entityId),
                                 !.playerNames = MapDelete(@, oldPlayer.name)],
              entityMgr |-> mgr \ {entityId}]

GameUnchanged ==
    /\ UNCHANGED <<login, codecIn, codecOut, coordIn, coordOut, decoded, loaded>>
    /\ UNCHANGED <<chunks, shardQueue, shardTicks, entPos, tx, unsubCalls,
                   lastOp, lastBatch, sdArgs, sdOut>>
    /\ UNCHANGED <<subsVars, sessVars, itemVars, moveVars>>

\* pktHandler.handleLogin of a new connection up to the authentication, which
\* it passes as name.
WorkerLogin(w, name) ==
    /\ w \notin DOMAIN workers
    /\ workers' = MapSet(workers, w, NewWorker(name))
    /\ UNCHANGED <<game, entityMgr>>
    /\ GameUnchanged

\* pktHandler.handleLogin from NewEntity to the send on game.playerConnect;
\* playerData is what the world store has for the user: "error", "nil",
\* "bad" (it cannot be parsed) or "good".
WorkerPlayer(w, playerData) ==
    /\ w \in DOMAIN workers
    /\ workers[w].pc = "player"
    /\ NewEntity \in EntityIds
    /\ entityMgr' = entityMgr \cup {NewEntity}
    /\ workers' = [workers EXCEPT ![w].entityId = NewEntity,
                                  ![w].pc = IF playerData \in {"error", "bad"}
                                            THEN "failed" ELSE "connect"]
    /\ UNCHANGED game
    /\ GameUnchanged

\* Game.Serve takes the player from game.playerConnect; the worker goes on
\* with player.Run().
GameConnect(w) ==
    /\ w \in DOMAIN workers
    /\ workers[w].pc = "connect"
    /\ game' = Game_onPlayerConnect(game, NewPlayer(workers[w].entityId, workers[w].name))
    /\ workers' = [workers EXCEPT ![w].pc = "run"]
    /\ UNCHANGED entityMgr
    /\ GameUnchanged

\* The main loop of the player has ended and Game.Serve takes the entity id
\* from game.playerDisconnect.
GameDisconnect(w) ==
    /\ w \in DOMAIN workers
    /\ workers[w].pc = "run"
    /\ LET r == Game_onPlayerDisconnect(game, entityMgr, workers[w].entityId)
       IN  /\ game' = r.game
           /\ entityMgr' = r.entityMgr
    /\ workers' = [workers EXCEPT ![w].pc = "left"]
    /\ GameUnchanged

\* The worker ends: handleLogin has returned, with an error or after
\* player.Run(), and the deferred function of handle has run.
WorkerEnd(w) ==
    /\ w \in DOMAIN workers
    /\ workers[w].pc \in {"failed", "left"}
    /\ workers' = MapDelete(workers, w)
    /\ UNCHANGED <<game, entityMgr>>
    /\ GameUnchanged

InitGame ==
    /\ SessInit
    /\ playerPingNoCheck = FALSE
    /\ position = XZ(0, 0)
    /\ SubsBlank
    /\ WorldBlank

NextGame ==
    \/ \E w \in Workers, name \in GameNames : WorkerLogin(w, name)
    \/ \E w \in Workers, playerData \in {"error", "nil", "bad", "good"} :
          WorkerPlayer(w, playerData)
    \/ \E w \in Workers : GameConnect(w)
    \/ \E w \in Workers : GameDisconnect(w)
    \/ \E w \in Workers : WorkerEnd(w)

SpecGame == InitGame /\ [][NextGame]_vars

----------------------------------------------------------------------------
(* C36: the two registries of the game.                                    *)

\* The players of the two registries.
PlayersById == {game.players[id] : id \in DOMAIN game.players}
PlayersByName == {game.playerNames[name] : name \in DOMAIN game.playerNames}

\* C36: after every connect and disconnect the registry by entity id and the
\* registry by name hold the same players, and no disconnect has run into a
\* fault.
C36_RegistriesAgree ==
    /\ PlayersById = PlayersByName
    /\ ~game.fault

----------------------------------------------------------------------------
(* C37: the entity ids of the handshake workers.                           *)

\* The entity ids of the players that are connected or about to be.
LiveIds == {workers[w].entityId : w \in {v \in DOMAIN workers :
                                          workers[v].pc \in {"connect", "run"}}}

\* C37: every entity id that the entity manager holds belongs to a player
\* that is about to be registered or is registered and still running: the id
\* of a failed login is released before the worker ends, the id of a player
\* on its disconnect.
C37_NoLeakedEntityId ==
    \A id \in entityMgr :
        \/ id \in LiveIds
        \/ \E w \in DOMAIN workers : workers[w].entityId = id /\ workers[w].pc = "failed"


----------------------------------------------------------------------------
(* The active blocks of a chunk and the block tick (specification          *)
(* SpecBlockTick).                                                         *)

\* Chunk.blockTypeAndData: ok is false for a block id that gamerules.Blocks
\* does not know, and the block type is then nil.
blockTypeAndData(chunk, index) ==
    LET blockTypeId == BlockId(chunk.blocks, index)
        ok == blockTypeId \in DOMAIN Blocks
    IN  [blockType |-> IF ok THEN blockTypeId ELSE Nil,
         blockData |-> IF ok THEN BlockData(chunk.blockData, index) ELSE 0,
         ok |-> ok]

\* Chunk.AddActiveBlockIndex
AddActiveBlockIndex(chunk, blockIndex) ==
    [chunk EXCEPT !.newActiveBlocks = @ \cup {blockIndex}]

\* The orders in which a range loop can visit the keys of a map.
OrdersOf(keys) ==
    {order \in [1 .. Cardinality(keys) -> keys] :
        \A k \in keys : \E i \in DOMAIN order : order[i] = k}

\* The loop of Chunk.blockTick over chunk.activeBlocks.  order holds the
\* indexes that the loop has yet to visit and ticks[i] is what the Tick of the
\* block at i returns.  For an unknown block the index is deleted and the
\* loop goes on to blockInstance.BlockType.Aspect with a nil BlockType, which
\* is a fault that ends the loop.
RECURSIVE blockTickLoop(_, _, _, _)
blockTickLoop(chunk, order, ticks, ticked) ==
    IF order = << >>
    THEN [chunk |-> [chunk EXCEPT !.storeDirty = TRUE], ticked |-> ticked, fault |-> FALSE]
    ELSE LET blockIndex == Head(order)
             b == blockTypeAndData(chunk, blockIndex)
         IN  IF ~b.ok
             THEN [chunk |-> [chunk EXCEPT !.activeBlocks = @ \ {blockIndex}],
                   ticked |-> ticked, fault |-> TRUE]
             ELSE blockTickLoop(IF ticks[blockIndex] THEN chunk
                                ELSE [chunk EXCEPT !.activeBlocks = @ \ {blockIndex}],
                                Tail(order), ticks, ticked \cup {blockIndex})

\* Chunk.blockTick
blockTick(chunk, order, ticks) ==
    IF chunk.activeBlocks = {} /\ chunk.newActiveBlocks = {}
    THEN [chunk |-> chunk, ticked |-> {}, fault |-> FALSE]
    ELSE blockTickLoop([chunk EXCEPT !.activeBlocks = @ \cup chunk.newActiveBlocks,
                                     !.newActiveBlocks = {}],
                       order, ticks, {})

\* What the latest block tick found and did.
TickOp(loc, chunk, r) ==
    [op |-> "blockTick", loc |-> loc,
     active |-> chunk.activeBlocks \cup chunk.newActiveBlocks,
     unknown |-> {i \in chunk.activeBlocks \cup chunk.newActiveBlocks :
                     ~blockTypeAndData(chunk, i).ok},
     ticked |-> r.ticked, fault |-> r.fault]

CallAddActiveBlockIndex(loc, blockIndex) ==
    ChunkOp(loc, [Ctx(chunks[loc]) EXCEPT !.chunk = AddActiveBlockIndex(@, blockIndex)],
            [Op("AddActiveBlockIndex", loc) EXCEPT !.subLoc = blockIndex])

CallBlockTick(loc) ==
    \E order \in OrdersOf(chunks[loc].activeBlocks \cup chunks[loc].newActiveBlocks),
       ticks \in [BlockIndexes -> BOOLEAN] :
        LET r == blockTick(chunks[loc], order, ticks)
        IN  ChunkOp(loc, [Ctx(chunks[loc]) EXCEPT !.chunk = r.chunk],
                    TickOp(loc, chunks[loc], r))

NextBlockTick ==
    \/ \E i \in BlockIndexes, id \in BlockIds, data \in BlockDatas :
          SetBlockByIndex(Origin, i, id, data)
    \/ \E i \in BlockIndexes : CallAddActiveBlockIndex(Origin, i)
    \/ CallBlockTick(Origin)

SpecBlockTick == InitWorld /\ [][NextBlockTick]_vars

----------------------------------------------------------------------------
(* C39: an active block of an unknown block type.                          *)

\* C39: a block tick removes the active indexes whose block id has no block
\* type from the active set without their Tick, runs the Tick of every other
\* active block, and ends without a fault.
C39_UnknownBlockSkipped ==
    lastOp.op = "blockTick" =>
        /\ ~lastOp.fault
        /\ lastOp.ticked = lastOp.active \ lastOp.unknown
        /\ chunks[lastOp.loc].activeBlocks \cap lastOp.unknown = {}


----------------------------------------------------------------------------
(* The conversions of an absolute position to a chunk (specification       *)
(* SpecCoords).                                                            *)

\* An AbsCoord is a float64; the positions of the model are the multiples of
\* 1 / AbsScale of a block, kept as the integer AbsScale * coordinate, with
\* X and Z within -MaxAbs .. MaxAbs blocks.
AbsScale == 2
MaxAbs == 20

\* math.Floor of n / d for d > 0
Floor(n, d) == n \div d

\* AbsXyz.ToChunkXz: ChunkCoord(abs.X / ChunkSizeH), the conversion of the
\* float64 quotient to int32, which truncates towards zero
AbsXyz_ToChunkXz(abs) ==
    XZ(TruncDiv(abs.X, ChunkSizeH * AbsScale), TruncDiv(abs.Z, ChunkSizeH * AbsScale))

\* AbsXyz.UpdateChunkXz: ChunkCoord(math.Floor(float64(p.X / ChunkSizeH)))
AbsXyz_UpdateChunkXz(p) ==
    XZ(Floor(p.X, ChunkSizeH * AbsScale), Floor(p.Z, ChunkSizeH * AbsScale))

\* AbsXyz.ToBlockXyz: BlockCoord(math.Floor(float64(p.X)))
AbsXyz_ToBlockXyz(p) == XZ(Floor(p.X, AbsScale), Floor(p.Z, AbsScale))

\* coordDivMod: Go's / truncates towards zero and % has the sign of num
coordDivMod(num, denom) ==
    LET div == TruncDiv(num, denom)
        mod == num - div * denom
    IN  IF mod < 0 THEN [div |-> div - 1, mod |-> mod + denom]
        ELSE [div |-> div, mod |-> mod]

\* BlockXyz.ToChunkLocal
BlockXyz_ToChunkLocal(blockLoc) ==
    LET x == coordDivMod(blockLoc.X, ChunkSizeH)
        z == coordDivMod(blockLoc.Z, ChunkSizeH)
    IN  [chunkLoc |-> XZ(x.div, z.div), subLoc |-> XZ(x.mod, z.mod)]

AbsCoords == (-MaxAbs * AbsScale) .. (MaxAbs * AbsScale)

\* The three conversions of the position.
CoordConvert ==
    /\ ~coordOut.done
    /\ coordOut' = [done |-> TRUE,
                    toChunkXz |-> AbsXyz_ToChunkXz(coordIn),
                    updateChunkXz |-> AbsXyz_UpdateChunkXz(coordIn),
                    toChunkLocal |-> BlockXyz_ToChunkLocal(AbsXyz_ToBlockXyz(coordIn))]
    /\ UNCHANGED <<coordIn, login, codecIn, codecOut, game, workers, decoded, loaded>>
    /\ UNCHANGED <<subsVars, sessVars, worldVars, itemVars, moveVars>>

InitCoords ==
    /\ SessInit
    /\ playerPingNoCheck = FALSE
    /\ position = XZ(0, 0)
    /\ SubsBlank
    /\ chunks = [loc \in ChunkLocs |-> NewChunk]
    /\ shardQueue = [s \in ShardLocs |-> << >>]
    /\ shardTicks = [s \in ShardLocs |-> 0]
    /\ entityMgr = {}
    /\ entPos = [e \in EntityIds |-> [chunkLoc |-> Origin, alive |-> TRUE]]
    /\ tx = NoOut
    /\ unsubCalls = NoCalls
    /\ lastOp = Op("none", Origin)
    /\ lastBatch = << >>
    /\ ItemsBlank
    /\ SquareBlank
    /\ login = [pc |-> "none"]
    /\ codecIn = [fn |-> "none"]
    /\ codecOut = [done |-> FALSE]
    /\ GameBlank
    /\ coordIn \in {XZ(x, z) : x \in AbsCoords, z \in AbsCoords}
    /\ coordOut = [done |-> FALSE]
    /\ RecipeBlank

NextCoords == CoordConvert

SpecCoords == InitCoords /\ [][NextCoords]_vars

----------------------------------------------------------------------------
(* C40: the chunk of an absolute position.                                 *)

\* C40: for every position p, negative X or Z included, AbsXyz.ToChunkXz
\* gives (floor(p.X / 16), floor(p.Z / 16)), which is also what UpdateChunkXz
\* and BlockXyz.ToChunkLocal of p's block give.
C40_ToChunkXzFloors ==
    coordOut.done =>
        /\ coordOut.toChunkXz = XZ(Floor(coordIn.X, ChunkSizeH * AbsScale),
                                   Floor(coordIn.Z, ChunkSizeH * AbsScale))
        /\ coordOut.toChunkXz = coordOut.updateChunkXz
        /\ coordOut.toChunkXz = coordOut.toChunkLocal.chunkLoc


----------------------------------------------------------------------------
(* The recipes and their templates (package recipe, specification          *)
(* SpecRecipes).                                                           *)

\* The limits of a recipe's grid.
maxRecipeWidth == 3
maxRecipeHeight == 3
\* The rows of a template have at most MaxRow cells, its Input at most
\* MaxRows rows and its OutputTypes at most MaxOutputs entries.
MaxRow == 2
MaxRows == 2
MaxOutputs == 2

\* itemtype.ItemTypeMap: the ids of the item types that exist.
ItemTypes == {5, 17}

typeInstance(id, data) == [Id |-> id, Data |-> data]

\* RecipeSlot{nil, 0}, which is also the zero value of a RecipeSlot
EmptySlot == [Type |-> Nil, Data |-> 0]

\* typeInstance.createRecipeSlot
createRecipeSlot(ti, itemTypes) ==
    IF ti.Id \notin itemTypes
    THEN [slot |-> EmptySlot, err |-> "Item type does not exist"]
    ELSE [slot |-> [Type |-> ti.Id, Data |-> ti.Data], err |-> Nil]

\* recipeTemplate.init: the template with its height and width, and the error
recipeTemplate_init(rt) ==
    LET rtHeight == Len(rt.Input)
        rtWidth == Len(rt.Input[1])
        recipeCount == Len(rt.OutputTypes)
        rt1 == [Comment |-> rt.Comment, Input |-> rt.Input, InputTypes |-> rt.InputTypes,
                OutputTypes |-> rt.OutputTypes, OutputCount |-> rt.OutputCount,
                height |-> rtWidth, width |-> rtHeight]
    IN  IF rtHeight < 1 \/ rtHeight > maxRecipeHeight
        THEN [rt |-> rt, err |-> "Invalid recipe height"]
        ELSE IF rtWidth < 1 \/ rtWidth > maxRecipeWidth
        THEN [rt |-> rt, err |-> "Invalid recipe width"]
        ELSE IF \E r \in DOMAIN rt.Input : Len(rt.Input[r]) # rtWidth
        THEN [rt |-> rt1, err |-> "Irregular recipe input rows"]
        ELSE IF \E key \in DOMAIN rt.InputTypes : Len(rt.InputTypes[key]) # recipeCount
        THEN [rt |-> rt1, err |-> "Irregular input type count"]
        ELSE [rt |-> rt1, err |-> Nil]

\* recipeTemplate.numRecipes
numRecipes(rt) == Len(rt.OutputTypes)

\* The cells of the rows, row by row.
RECURSIVE Cells(_)
Cells(rows) == IF rows = << >> THEN << >> ELSE Head(rows) \o Cells(Tail(rows))

\* The zero value of a Recipe with its Input of size slots.
NewRecipe(rt, size) ==
    [Comment |-> rt.Comment, Width |-> rt.width, Height |-> rt.height,
     Input |-> [k \in 1 .. size |-> EmptySlot], Output |-> EmptySlot,
     OutputCount |-> rt.OutputCount]

\* recipeTemplate.createRecipe; recipeIndex counts from 0.  The error of
\* createRecipeSlot for an input slot is dropped.
createRecipe(rt, recipeIndex, itemTypes) ==
    LET recipe == NewRecipe(rt, rt.width * rt.height)
        cells == Cells(rt.Input)
        missing == {k \in DOMAIN cells : cells[k] # " " /\ cells[k] \notin DOMAIN rt.InputTypes}
        first == IF missing = {} THEN Len(cells) + 1 ELSE MinOf(missing)
        slotAt(k) == IF cells[k] = " " THEN EmptySlot
                     ELSE createRecipeSlot(rt.InputTypes[cells[k]][recipeIndex + 1],
                                           itemTypes).slot
        input == [k \in DOMAIN recipe.Input |-> IF k < first THEN slotAt(k) ELSE EmptySlot]
        output == createRecipeSlot(rt.OutputTypes[recipeIndex + 1], itemTypes)
    IN  IF missing # {}
        THEN [recipe |-> [recipe EXCEPT !.Input = input],
              err |-> "Item code does not exist in InputTypes"]
        ELSE [recipe |-> [recipe EXCEPT !.Input = input, !.Output = output.slot],
              err |-> output.err]

\* The calls of createRecipe in the order of LoadRecipes' second loop.
RECURSIVE CreateAll(_, _)
CreateAll(tmpls, itemTypes) ==
    IF tmpls = << >> THEN << >>
    ELSE [j \in 1 .. numRecipes(Head(tmpls)) |-> createRecipe(Head(tmpls), j - 1, itemTypes)]
             \o CreateAll(Tail(tmpls), itemTypes)

\* The zero value of a Recipe.
ZeroRecipe == [Comment |-> "", Width |-> 0, Height |-> 0, Input |-> << >>,
               Output |-> EmptySlot, OutputCount |-> 0]

\* LoadRecipes; json is what decoder.Decode(&templates) gives.
LoadRecipes(json, itemTypes) ==
    LET inits == [i \in DOMAIN json.templates |-> recipeTemplate_init(json.templates[i])]
        failed == {i \in DOMAIN inits : inits[i].err # Nil}
        all == CreateAll([i \in DOMAIN inits |-> inits[i].rt], itemTypes)
        errs == {k \in DOMAIN all : all[k].err # Nil}
        last == IF errs = {} THEN Len(all) ELSE MinOf(errs)
    IN  IF json.err # Nil THEN [recipes |-> Nil, err |-> json.err]
        ELSE IF failed # {} THEN [recipes |-> Nil, err |-> inits[MinOf(failed)].err]
        ELSE [recipes |-> [k \in DOMAIN all |-> IF k <= last THEN all[k].recipe
                                               ELSE ZeroRecipe],
              err |-> IF errs = {} THEN Nil ELSE all[last].err]

\* The templates of the model.
RowsOf(n) == [1 .. n -> {" ", "A"}]
TemplateRows == UNION {RowsOf(n) : n \in 1 .. MaxRow}
TemplateInputs == UNION {[1 .. h -> TemplateRows] : h \in 0 .. MaxRows}
TemplateOutputs ==
    {[j \in 1 .. n |-> typeInstance(5, 0)] : n \in 0 .. MaxOutputs}
        \cup {<<typeInstance(9, 0)>>}
TemplateInputTypes(n) ==
    {<< >>, "A" :> [j \in 1 .. n |-> typeInstance(17, j - 1)],
     "A" :> <<typeInstance(17, 0)>>}
Template(input, inputTypes, outputTypes) ==
    [Comment |-> "t", Input |-> input, InputTypes |-> inputTypes,
     OutputTypes |-> outputTypes, OutputCount |-> 4]
Templates ==
    {Template(input, inputTypes, outputTypes) :
        input \in TemplateInputs,
        inputTypes \in UNION {TemplateInputTypes(n) : n \in 0 .. MaxOutputs},
        outputTypes \in TemplateOutputs}
LastTemplates ==
    {Template(<<<<"A">>, <<" ">>>>, "A" :> <<typeInstance(17, 1)>>, <<typeInstance(5, 0)>>),
     Template(<<<<"A", "A">>>>, << >>, <<typeInstance(5, 0)>>)}
TemplateLists ==
    {<< >>} \cup {<<t>> : t \in Templates}
            \cup {<<t, u>> : t \in Templates, u \in LastTemplates}
Decoded ==
    {[err |-> Nil, templates |-> ts] : ts \in TemplateLists}
        \cup {[err |-> "json", templates |-> << >>]}

\* LoadRecipes(reader, itemTypes)
CallLoadRecipes ==
    /\ ~loaded.done
    /\ LET r == LoadRecipes(decoded, ItemTypes)
       IN  loaded' = [done |-> TRUE, recipes |-> r.recipes, err |-> r.err]
    /\ UNCHANGED <<decoded, login, codecIn, codecOut, game, workers, coordIn, coordOut>>
    /\ UNCHANGED <<subsVars, sessVars, worldVars, itemVars, moveVars>>

InitRecipes ==
    /\ SessInit
    /\ playerPingNoCheck = FALSE
    /\ position = XZ(0, 0)
    /\ SubsBlank
    /\ chunks = [loc \in ChunkLocs |-> NewChunk]
    /\ shardQueue = [s \in ShardLocs |-> << >>]
    /\ shardTicks = [s \in ShardLocs |-> 0]
    /\ entityMgr = {}
    /\ entPos = [e \in EntityIds |-> [chunkLoc |-> Origin, alive |-> TRUE]]
    /\ tx = NoOut
    /\ unsubCalls = NoCalls
    /\ lastOp = Op("none", Origin)
    /\ lastBatch = << >>
    /\ ItemsBlank
    /\ SquareBlank
    /\ login = [pc |-> "none"]
    /\ codecIn = [fn |-> "none"]
    /\ codecOut = [done |-> FALSE]
    /\ GameBlank
    /\ CoordBlank
    /\ decoded \in Decoded
    /\ loaded = [done |-> FALSE]

NextRecipes == CallLoadRecipes

SpecRecipes == InitRecipes /\ [][NextRecipes]_vars

----------------------------------------------------------------------------
(* C31: the recipes of a valid template list.                              *)

\* A template that LoadRecipes accepts: a regular grid within the limits,
\* one input type per recipe for every key, every item code of the grid among
\* the keys and every item type known.
ValidTemplate(rt) ==
    /\ Len(rt.Input) \in 1 .. maxRecipeHeight
    /\ \A r \in DOMAIN rt.Input : Len(rt.Input[r]) = Len(rt.Input[1])
    /\ Len(rt.Input[1]) \in 1 .. maxRecipeWidth
    /\ \A key \in DOMAIN rt.InputTypes :
          /\ Len(rt.InputTypes[key]) = Len(rt.OutputTypes)
          /\ \A j \in DOMAIN rt.InputTypes[key] : rt.InputTypes[key][j].Id \in ItemTypes
    /\ \A r \in DOMAIN rt.Input : \A c \in DOMAIN rt.Input[r] :
          rt.Input[r][c] = " " \/ rt.Input[r][c] \in DOMAIN rt.InputTypes
    /\ \A j \in DOMAIN rt.OutputTypes : rt.OutputTypes[j].Id \in ItemTypes

\* The recipe that the claim states for entry j of the template's OutputTypes.
ExpectedRecipe(rt, j) ==
    LET cells == Cells(rt.Input)
    IN  [Comment |-> rt.Comment,
         Width |-> Len(rt.Input[1]),
         Height |-> Len(rt.Input),
         Input |-> [k \in DOMAIN cells |->
                       IF cells[k] = " " THEN EmptySlot
                       ELSE [Type |-> rt.InputTypes[cells[k]][j].Id,
                             Data |-> rt.InputTypes[cells[k]][j].Data]],
         Output |-> [Type |-> rt.OutputTypes[j].Id, Data |-> rt.OutputTypes[j].Data],
         OutputCount |-> rt.OutputCount]

RECURSIVE ExpectedRecipes(_)
ExpectedRecipes(tmpls) ==
    IF tmpls = << >> THEN << >>
    ELSE [j \in DOMAIN Head(tmpls).OutputTypes |-> ExpectedRecipe(Head(tmpls), j)]
             \o ExpectedRecipes(Tail(tmpls))

\* C31: for a valid template list LoadRecipes returns no error and, in the
\* order of the templates, one recipe per OutputTypes entry of each template,
\* with Width the length of an Input row, Height the number of Input rows and
\* Input row by row, ' ' cells as empty slots.
C31_RecipesOfTemplates ==
    (/\ loaded.done
     /\ decoded.err = Nil
     /\ \A i \in DOMAIN decoded.templates : ValidTemplate(decoded.templates[i]))
    => /\ loaded.err = Nil
       /\ loaded.recipes = ExpectedRecipes(decoded.templates)

====
